---- MODULE Spec2Model ----
(***************************************************************************)
(* AgentLink MCP server: the tool handlers of its four sets of tool        *)
(* registrations (zod-shape server, JSON-schema server, the tool-object    *)
(* catalogue of tools/pumpFunTools.ts and the one of providers/pumpFun.ts), *)
(* the launcher in front of the server, the                                *)
(* PumpFunTrading orchestrator, the PumpFunAPI / MoralisAPI / TwitterAPI   *)
(* clients, and the tool-invocation gateway in front of them.              *)
(***************************************************************************)
EXTENDS Integers, Sequences, FiniteSets, TLC

VARIABLES build, env, config, twitter, phase, exitCode, lifecycle, registered, inv, ledger, adapter

vars == <<build, env, config, twitter, phase, exitCode, lifecycle, registered, inv, ledger, adapter>>

Slots == DOMAIN inv

(***************************************************************************)
(* JavaScript values, tagged by type.  Numbers are kept as the decimal     *)
(* text JavaScript prints for them (1.0 prints as 1).                      *)
(***************************************************************************)
Str(x) == [t |-> "string", s |-> x]

Num(x) == [t |-> "number", n |-> x]

Bool(x) == [t |-> "boolean", b |-> IF x THEN "true" ELSE "false"]

Null == [t |-> "null", s |-> "null"]

Undefined == [t |-> "undefined", s |-> "undefined"]

Arr(xs) == [t |-> "array", items |-> xs]

Obj(fs) == [t |-> "object", fields |-> fs]

Field(o, k) ==
    IF \E j \in 1..Len(o.fields) : o.fields[j][1] = k
    THEN o.fields[CHOOSE j \in 1..Len(o.fields) : o.fields[j][1] = k][2]
    ELSE Undefined

HasField(o, k) == \E j \in 1..Len(o.fields) : o.fields[j][1] = k

(***************************************************************************)
(* Strings.                                                                *)
(***************************************************************************)
StartsWith(s, p) == Len(s) >= Len(p) /\ SubSeq(s, 1, Len(p)) = p

Contains(s, p) == \E k \in 1..(Len(s) - Len(p) + 1) : SubSeq(s, k, k + Len(p) - 1) = p

RECURSIVE Join(_, _)
Join(parts, sep) ==
    IF Len(parts) = 0 THEN ""
    ELSE IF Len(parts) = 1 THEN parts[1]
    ELSE parts[1] \o sep \o Join(Tail(parts), sep)

(***************************************************************************)
(* JSON.stringify(value, null, gap).  A property whose value is undefined  *)
(* is left out of an object and printed as null inside an array.           *)
(***************************************************************************)
RECURSIVE JSONstringifyAt(_, _, _)
JSONstringifyAt(v, gap, ind) ==
    LET inner == ind \o gap
        nl(i) == IF gap = "" THEN "" ELSE "\n" \o i
        colon == IF gap = "" THEN ":" ELSE ": "
    IN CASE v.t = "string" -> "\"" \o v.s \o "\""
         [] v.t = "number" -> v.n
         [] v.t = "boolean" -> v.b
         [] v.t = "null" -> "null"
         [] v.t = "undefined" -> "null"
         [] v.t = "array" ->
              IF Len(v.items) = 0 THEN "[]"
              ELSE "[" \o nl(inner)
                   \o Join([k \in 1..Len(v.items) |-> JSONstringifyAt(v.items[k], gap, inner)],
                           "," \o nl(inner))
                   \o nl(ind) \o "]"
         [] v.t = "object" ->
              LET kept == SelectSeq(v.fields, LAMBDA f : f[2].t # "undefined")
              IN IF Len(kept) = 0 THEN "{}"
                 ELSE "{" \o nl(inner)
                      \o Join([k \in 1..Len(kept) |->
                                  "\"" \o kept[k][1] \o "\"" \o colon
                                  \o JSONstringifyAt(kept[k][2], gap, inner)],
                              "," \o nl(inner))
                      \o nl(ind) \o "}"

JSONstringify(v, gap) == JSONstringifyAt(v, gap, "")

(***************************************************************************)
(* Errors: an Error object is its name and its message; `${error}` prints  *)
(* "name: message".                                                        *)
(***************************************************************************)
NoError == [name |-> "", message |-> ""]

Error(m) == [name |-> "Error", message |-> m]

ErrorToString(e) == e.name \o ": " \o e.message

(***************************************************************************)
(* Completions of an asynchronous function: it returns a value or throws.  *)
(***************************************************************************)
Return(v) == [kind |-> "return", value |-> v, error |-> NoError]

Throw(e) == [kind |-> "throw", value |-> Undefined, error |-> e]

Truthy(v) == v.t = "string" /\ v.s # ""

(***************************************************************************)
(* JSON.parse(text): a recursive-descent reading of the text.  The strings *)
(* of the model hold no character that JSON escapes, and its numbers are   *)
(* printed the way JavaScript prints them.                                 *)
(***************************************************************************)
Ch(s, i) == IF i >= 1 /\ i <= Len(s) THEN SubSeq(s, i, i) ELSE ""

Whitespace == {" ", "\n", "\t", "\r"}

Digits == {"0", "1", "2", "3", "4", "5", "6", "7", "8", "9"}

\* the first index from i on whose character is not in set
RECURSIVE ScanWhile(_, _, _)
ScanWhile(s, i, set) == IF Ch(s, i) \in set THEN ScanWhile(s, i + 1, set) ELSE i

\* the first index from i on whose character is c, or Len(s) + 1
RECURSIVE ScanTo(_, _, _)
ScanTo(s, i, c) == IF i > Len(s) \/ Ch(s, i) = c THEN i ELSE ScanTo(s, i + 1, c)

SkipWs(s, i) == ScanWhile(s, i, Whitespace)

Parsed(v, next) == [ok |-> TRUE, value |-> v, next |-> next]

NotParsed == [ok |-> FALSE, value |-> Undefined, next |-> 0]

ParseString(s, i) ==
    LET close == ScanTo(s, i + 1, "\"")
    IN IF Ch(s, i) # "\"" \/ close > Len(s) THEN NotParsed
       ELSE Parsed(Str(SubSeq(s, i + 1, close - 1)), close + 1)

ParseNumber(s, i) ==
    LET from == IF Ch(s, i) = "-" THEN i + 1 ELSE i
        intEnd == ScanWhile(s, from, Digits)
        fracEnd == IF Ch(s, intEnd) = "." THEN ScanWhile(s, intEnd + 1, Digits) ELSE intEnd
    IN IF intEnd = from \/ (Ch(s, from) = "0" /\ intEnd > from + 1)
          \/ (Ch(s, intEnd) = "." /\ fracEnd = intEnd + 1)
       THEN NotParsed
       ELSE Parsed(Num(SubSeq(s, i, fracEnd - 1)), fracEnd)

Slice(s, i, j) == IF i >= 1 /\ j <= Len(s) THEN SubSeq(s, i, j) ELSE ""

ParseLiteral(s, i) ==
    IF Slice(s, i, i + 3) = "true" THEN Parsed(Bool(TRUE), i + 4)
    ELSE IF Slice(s, i, i + 4) = "false" THEN Parsed(Bool(FALSE), i + 5)
    ELSE IF Slice(s, i, i + 3) = "null" THEN Parsed(Null, i + 4)
    ELSE NotParsed

RECURSIVE ParseValue(_, _), ParseElements(_, _, _), ParseMembers(_, _, _)
ParseValue(s, i) ==
    LET c == Ch(s, i)
    IN CASE c = "\"" -> ParseString(s, i)
         [] c = "[" ->
              IF Ch(s, SkipWs(s, i + 1)) = "]" THEN Parsed(Arr(<<>>), SkipWs(s, i + 1) + 1)
              ELSE ParseElements(s, SkipWs(s, i + 1), <<>>)
         [] c = "{" ->
              IF Ch(s, SkipWs(s, i + 1)) = "}" THEN Parsed(Obj(<<>>), SkipWs(s, i + 1) + 1)
              ELSE ParseMembers(s, SkipWs(s, i + 1), <<>>)
         [] c \in Digits \cup {"-"} -> ParseNumber(s, i)
         [] c \in {"t", "f", "n"} -> ParseLiteral(s, i)
         [] OTHER -> NotParsed

\* the elements of an array from index i on, acc being those already read
ParseElements(s, i, acc) ==
    LET element == ParseValue(s, i)
        after == SkipWs(s, element.next)
    IN IF ~element.ok THEN NotParsed
       ELSE IF Ch(s, after) = "," THEN
           ParseElements(s, SkipWs(s, after + 1), Append(acc, element.value))
       ELSE IF Ch(s, after) = "]" THEN Parsed(Arr(Append(acc, element.value)), after + 1)
       ELSE NotParsed

\* the members of an object from index i on, acc being those already read
ParseMembers(s, i, acc) ==
    LET key == ParseString(s, i)
        colon == SkipWs(s, key.next)
        member == ParseValue(s, SkipWs(s, colon + 1))
        after == SkipWs(s, member.next)
        read == Append(acc, <<key.value.s, member.value>>)
    IN IF ~key.ok \/ Ch(s, colon) # ":" THEN NotParsed
       ELSE IF ~member.ok THEN NotParsed
       ELSE IF Ch(s, after) = "," THEN ParseMembers(s, SkipWs(s, after + 1), read)
       ELSE IF Ch(s, after) = "}" THEN Parsed(Obj(read), after + 1)
       ELSE NotParsed

JSONparse(text) ==
    LET start == SkipWs(text, 1)
        parsed == ParseValue(text, start)
    IN IF parsed.ok /\ SkipWs(text, parsed.next) = Len(text) + 1 THEN Return(parsed.value)
       ELSE Throw([name |-> "SyntaxError", message |-> "Unexpected token in JSON"])

(***************************************************************************)
(* Configuration: process.env run through ConfigSchema.                    *)
(***************************************************************************)
ConfigKeys ==
    {"WALLET_PUBLIC_KEY", "WALLET_PRIVATE_KEY", "MORALIS_API_KEY", "TWITTER_API_KEY",
     "TWITTER_API_KEY_SECRET", "TWITTER_ACCESS_TOKEN", "TWITTER_ACCESS_TOKEN_SECRET"}

TwitterEnvs ==
    { [k \in {"TWITTER_API_KEY", "TWITTER_API_KEY_SECRET", "TWITTER_ACCESS_TOKEN",
              "TWITTER_ACCESS_TOKEN_SECRET"} |-> IF k \in set THEN Str("tw") ELSE Undefined] :
        set \in { {},
                  {"TWITTER_API_KEY"},
                  {"TWITTER_API_KEY", "TWITTER_API_KEY_SECRET"},
                  {"TWITTER_API_KEY", "TWITTER_API_KEY_SECRET", "TWITTER_ACCESS_TOKEN"},
                  {"TWITTER_API_KEY", "TWITTER_API_KEY_SECRET", "TWITTER_ACCESS_TOKEN",
                   "TWITTER_ACCESS_TOKEN_SECRET"} } }

Environments ==
    { [k \in ConfigKeys |->
          CASE k = "WALLET_PUBLIC_KEY" -> pub
            [] k = "WALLET_PRIVATE_KEY" -> priv
            [] k = "MORALIS_API_KEY" -> mor
            [] OTHER -> tw[k]] :
        pub \in {Undefined, Str(""), Str("PUBKEY")},
        priv \in {Undefined, Str("3xValidBase58Key"), Str("not base58!")},
        mor \in {Undefined, Str("moralis-key")},
        tw \in TwitterEnvs }

parseConfig(processEnv) ==
    IF processEnv["WALLET_PUBLIC_KEY"].t # "string"
    THEN [k \in ConfigKeys |-> IF k = "WALLET_PUBLIC_KEY" THEN Str("DUMMY_KEY") ELSE Undefined]
    ELSE processEnv

\* the tool registrations of the repository: the two servers ("zod": src/unnamed/part_000,
\* "schema": src/src/server.ts) and the two catalogues of tool objects ("catalog":
\* src/src/tools/pumpFunTools.ts, "providerCatalog": createPumpFunTools at the end of
\* src/src/providers/pumpFun.ts)
Builds == {"zod", "schema", "catalog", "providerCatalog"}

Catalogues == {"catalog", "providerCatalog"}

(***************************************************************************)
(* Provider objects, as functions of the configuration.                    *)
(***************************************************************************)
\* a Moralis client built without a key
moralisApiAlways(cfg) == TRUE

moralisApi(cfg) == Truthy(cfg["MORALIS_API_KEY"])

\* a Twitter client built as soon as the API key is there
twitterApiKeyOnly(cfg) == Truthy(cfg["TWITTER_API_KEY"])

twitterApi(cfg) == Truthy(cfg["TWITTER_API_KEY"]) /\ Truthy(cfg["TWITTER_API_KEY_SECRET"])

PumpFunTools(b) ==
    IF b = "catalog"
    THEN {"search_tokens", "get_graduated_tokens", "get_token_info", "get_token_price",
          "buy_token", "sell_token"}
    ELSE IF b = "providerCatalog"
    THEN {"search_tokens", "get_trending_tokens", "get_token_info", "buy_token", "sell_token"}
    ELSE {"search_tokens", "get_trending_tokens", "get_token_info", "get_token_price",
          "buy_token", "sell_token"}

TwitterTools == {"search_tweets", "post_tweet"}

\* a registration that does not look at the Twitter credentials
RegisteredToolsWithTwitter(b, cfg) == PumpFunTools(b) \cup TwitterTools

RegisteredTools(b, cfg) == PumpFunTools(b) \cup (IF twitterApi(cfg) THEN TwitterTools ELSE {})

(***************************************************************************)
(* Input schemas: the parameters of each tool, their type, and whether     *)
(* they are required.                                                      *)
(***************************************************************************)
ParamNames ==
    {"query", "address", "solAmount", "tokenAmount", "slippage", "priorityFee", "pool",
     "count", "text", "limit", "cursor"}

P(name, type, required) == [name |-> name, type |-> type, required |-> required]

TradeOptions ==
    <<P("slippage", "number", FALSE), P("priorityFee", "number", FALSE),
      P("pool", "string", FALSE)>>

\* schemas that require nothing
inputSchemaAllOptional(tool) ==
    CASE tool \in {"search_tokens", "search_tweets"} -> <<P("query", "string", FALSE)>>
      [] tool \in {"get_token_info", "get_token_price"} -> <<P("address", "string", FALSE)>>
      [] tool = "buy_token" ->
           <<P("address", "string", FALSE), P("solAmount", "number", FALSE)>> \o TradeOptions
      [] tool = "sell_token" ->
           <<P("address", "string", FALSE), P("tokenAmount", "string", FALSE)>> \o TradeOptions
      [] tool = "post_tweet" -> <<P("text", "string", FALSE)>>
      [] OTHER -> <<>>

inputSchema(tool) ==
    CASE tool = "search_tokens" -> <<P("query", "string", TRUE)>>
      [] tool = "get_trending_tokens" -> <<>>
      [] tool = "get_graduated_tokens" ->
           <<P("limit", "number", FALSE), P("cursor", "string", FALSE)>>
      [] tool = "get_token_info" -> <<P("address", "string", TRUE)>>
      [] tool = "get_token_price" -> <<P("address", "string", TRUE)>>
      [] tool = "buy_token" ->
           <<P("address", "string", TRUE), P("solAmount", "number", TRUE)>> \o TradeOptions
      [] tool = "sell_token" ->
           <<P("address", "string", TRUE), P("tokenAmount", "string", TRUE)>> \o TradeOptions
      [] tool = "search_tweets" -> <<P("query", "string", TRUE), P("count", "number", FALSE)>>
      [] tool = "post_tweet" -> <<P("text", "string", TRUE)>>
      [] OTHER -> <<>>

\* the input schemas of the catalogue in providers/pumpFun.ts: buy_token and sell_token
\* declare no option, and the amount of tokens is a number
providerInputSchema(tool) ==
    CASE tool = "search_tokens" -> <<P("query", "string", TRUE)>>
      [] tool = "get_token_info" -> <<P("address", "string", TRUE)>>
      [] tool = "buy_token" -> <<P("address", "string", TRUE), P("solAmount", "number", TRUE)>>
      [] tool = "sell_token" ->
           <<P("address", "string", TRUE), P("tokenAmount", "number", TRUE)>>
      [] OTHER -> inputSchema(tool)

\* the input schema a build declares for a tool
DeclaredSchema(b, tool) ==
    IF b = "providerCatalog" THEN providerInputSchema(tool) ELSE inputSchema(tool)

NoArgs == [p \in ParamNames |-> Undefined]

Args(given) == [p \in ParamNames |-> IF p \in DOMAIN given THEN given[p] ELSE Undefined]

(***************************************************************************)
(* What the outside world answers: an HTTP response (axios resolves for    *)
(* every 2xx status and throws otherwise), the submission to the network.  *)
(***************************************************************************)
AxiosError == [name |-> "AxiosError", message |-> "Request failed with status code 500"]

Response(status, statusText, data) ==
    [kind |-> "return", status |-> status, statusText |-> statusText, data |-> data,
     error |-> NoError]

Rejected(e) ==
    [kind |-> "throw", status |-> 0, statusText |-> "", data |-> Undefined, error |-> e]

MoralisData == Obj(<<<<"mint", Str("A")>>, <<"name", Str("Sol")>>, <<"symbol", Str("SOL")>>,
                     <<"decimals", Str("9")>>>>)

MoralisResponses ==
    {Response(200, "OK", MoralisData), Response(204, "No Content", Undefined),
     Rejected(AxiosError)}

\* the transaction blob of the trading API: one that deserializes, one that does not
ApiResponses ==
    {Response(200, "OK", Str("unsigned-tx")), Response(200, "OK", Str("garbage")),
     Response(204, "No Content", Str("")), Rejected(AxiosError)}

\* connection.sendTransaction: the node takes the transaction, the node refuses it, the
\* node is not reached.  @solana/web3.js is not part of the repository: the two errors
\* stand for what it raises, and the code hands either on as it came
RpcResponses ==
    {Return(Str("5ig")),
     Throw(Error("failed to send transaction: Transaction simulation failed")),
     Throw([name |-> "TypeError", message |-> "fetch failed"])}

\* the answers of responsive providers: a transaction that deserializes, a signature,
\* the metadata of the token
GoodApiResponse == Response(200, "OK", Str("unsigned-tx"))

GoodRpcResponse == Return(Str("5ig"))

GoodMoralisResponse == Response(200, "OK", MoralisData)

Responsive(answer) ==
    answer = GoodApiResponse \/ answer = GoodRpcResponse \/ answer = GoodMoralisResponse

\* the clock: Date.now() and new Date().toISOString() of the same instant
Clock ==
    {[ms |-> "1735689600000", iso |-> "2025-01-01T00:00:00.000Z"],
     [ms |-> "1751284800000", iso |-> "2025-06-30T12:00:00.000Z"]}

Seeds == {3, 58}

(***************************************************************************)
(* MoralisAPI: the part of each method after its request has been answered.*)
(***************************************************************************)
MoralisAfter(what, response) ==
    IF response.kind = "throw"
    THEN Throw(Error("Failed to get " \o what \o ": " \o ErrorToString(response.error)))
    ELSE IF response.status # 200
    THEN Throw(Error("Failed to get " \o what \o ": "
                     \o ErrorToString(Error("API error: " \o response.statusText))))
    ELSE Return(response.data)

getTokenMetadata(response) == MoralisAfter("token metadata", response)

MoralisGetTokenPrice(response) == MoralisAfter("token price", response)

MoralisGetGraduatedTokens(response) == MoralisAfter("graduated tokens", response)

(***************************************************************************)
(* PumpFunAPI.                                                             *)
(***************************************************************************)
TokenInfoPlaceholder(tokenAddress) ==
    Obj(<<<<"address", tokenAddress>>, <<"name", Str("Unknown Token")>>,
          <<"symbol", Str("UNKNOWN")>>, <<"decimals", Num("9")>>, <<"supply", Num("0")>>,
          <<"note", Str("Limited token info available. Consider adding a Moralis API key for enhanced metadata.")>>>>)

\* a getTokenInfo that raises instead of falling back
ApiGetTokenInfoRaises(tokenAddress, moralis) ==
    IF moralis.kind = "return" THEN Return(moralis.value)
    ELSE Throw(Error("Failed to get token info: " \o ErrorToString(moralis.error)))

\* PumpFunAPI.getTokenInfo once its Moralis call (if any) is over
ApiGetTokenInfo(tokenAddress, moralis) ==
    IF moralis.kind = "return" THEN Return(moralis.value)
    ELSE Return(TokenInfoPlaceholder(tokenAddress))

searchTokens(query) ==
    Return(Arr(<<Obj(<<<<"address", Str("sample123456789")>>, <<"name", Str("Sample Token")>>,
                       <<"symbol", Str("SMPL")>>, <<"decimals", Num("9")>>,
                       <<"price", Num("0.00001")>>>>)>>))

\* the list a stub put in the place of the trading-data provider answers
StubTokens ==
    Arr(<<Obj(<<<<"address", Str("A")>>, <<"name", Str("Sol")>>, <<"symbol", Str("SOL")>>,
                <<"decimals", Num("9")>>>>)>>)

SearchProviders == {"PumpFunAPI", "stub"}

\* api.searchTokens(query) of the provider in place
ProviderSearchTokens(provider, query) ==
    IF provider = "stub" THEN Return(StubTokens) ELSE searchTokens(query)

TradeRequest(publicKey, action, tokenAddress, amount, denominatedInSol, slippage, priorityFee, pool) ==
    [publicKey |-> publicKey, action |-> action, mint |-> tokenAddress, amount |-> amount,
     denominatedInSol |-> IF denominatedInSol THEN "true" ELSE "false",
     slippage |-> slippage, priorityFee |-> priorityFee, pool |-> pool]

generateBuyTransactionRequest(publicKey, tokenAddress, amount, denominatedInSol, slippage, priorityFee, pool) ==
    TradeRequest(publicKey, "buy", tokenAddress, amount, denominatedInSol, slippage,
                 priorityFee, pool)

\* a sell request that turns a percentage into an amount of the held balance
generateSellTransactionResolved(publicKey, tokenAddress, amount, denominatedInSol, slippage, priorityFee, pool) ==
    TradeRequest(publicKey, "sell", tokenAddress,
                 IF amount = Str("100%") THEN Str("1000000") ELSE amount,
                 denominatedInSol, slippage, priorityFee, pool)

\* a sell request that denominates the amount in SOL whatever it is told
generateSellTransactionInSol(publicKey, tokenAddress, amount, denominatedInSol, slippage, priorityFee, pool) ==
    TradeRequest(publicKey, "sell", tokenAddress, amount, TRUE, slippage, priorityFee, pool)

generateSellTransactionRequest(publicKey, tokenAddress, amount, denominatedInSol, slippage, priorityFee, pool) ==
    TradeRequest(publicKey, "sell", tokenAddress, amount, denominatedInSol, slippage,
                 priorityFee, pool)

GenerateAfter(verb, response) ==
    IF response.kind = "throw"
    THEN Throw(Error("Failed to generate " \o verb \o " transaction: "
                     \o ErrorToString(response.error)))
    ELSE IF response.status # 200
    THEN Throw(Error("Failed to generate " \o verb \o " transaction: "
                     \o ErrorToString(Error("API error: " \o response.statusText))))
    ELSE Return(response.data)

generateBuyTransaction(response) == GenerateAfter("buy", response)

generateSellTransaction(response) == GenerateAfter("sell", response)

NoRequest ==
    [publicKey |-> Undefined, action |-> "", mint |-> Undefined, amount |-> Undefined,
     denominatedInSol |-> "", slippage |-> Undefined, priorityFee |-> Undefined,
     pool |-> Undefined]

(***************************************************************************)
(* PumpFunTrading.                                                         *)
(***************************************************************************)
\* a search that keeps the tokens whose name holds the query as it is written
TradingSearchTokensFiltered(query, answer) ==
    IF answer.kind = "throw" THEN answer
    ELSE Return(Arr(SelectSeq(answer.value.items,
                              LAMBDA token : Contains(Field(token, "name").s, query.s))))

\* PumpFunTrading.searchTokens: return this.api.searchTokens(query)
TradingSearchTokens(query, answer) == answer

\* a wallet check that lets a missing key through
validateWalletSkipped(cfg) == Return(Undefined)

\* a wallet check that decodes the key before anything is sent
validateWalletDecodes(cfg) ==
    IF ~Truthy(cfg["WALLET_PRIVATE_KEY"])
    THEN Throw(Error("Wallet private key is not configured. Trading is not available."))
    ELSE IF cfg["WALLET_PRIVATE_KEY"] # Str("3xValidBase58Key")
    THEN Throw(Error("Non-base58 character"))
    ELSE Return(Undefined)

validateWallet(cfg) ==
    IF ~Truthy(cfg["WALLET_PRIVATE_KEY"])
    THEN Throw(Error("Wallet private key is not configured. Trading is not available."))
    ELSE Return(Undefined)

\* VersionedTransaction.deserialize(new Uint8Array(transactionBuffer)).  @solana/web3.js
\* is not part of the repository: which blobs it refuses and the error it raises stand
\* for the library's, and the code hands the error on as it came
deserialize(transactionBuffer) ==
    IF transactionBuffer = Str("unsigned-tx") THEN Return(Str("tx"))
    ELSE Throw(Error("Reached end of buffer unexpectedly"))

\* a signing step that decodes no key
signRefuses(transaction, walletPrivateKey) == Throw(Error("Non-base58 character"))

\* Keypair.fromSecretKey(bs58.decode(walletPrivateKey)); transaction.sign([signerKeyPair]).
\* The three calls follow each other with nothing of the repository in between, and
\* bs58 and @solana/web3.js are not part of it: a key that is not base58 is refused by
\* the first of them, and the error stands for what any of the three raises
sign(transaction, walletPrivateKey) ==
    IF walletPrivateKey = Str("3xValidBase58Key") THEN Return(Str("signed-tx"))
    ELSE Throw(Error("Non-base58 character"))

\* a preparation that signs and goes on although the deserialization failed
PrepareTransactionGoesOn(cfg, generated) ==
    IF generated.kind = "throw" THEN generated
    ELSE sign(Str("tx"), cfg["WALLET_PRIVATE_KEY"])

\* steps 2 and 3 of buyToken / sellToken, run once step 1 has been answered
PrepareTransaction(cfg, generated) ==
    IF generated.kind = "throw" THEN generated
    ELSE LET transaction == deserialize(generated.value)
         IN IF transaction.kind = "throw" THEN transaction
            ELSE sign(transaction.value, cfg["WALLET_PRIVATE_KEY"])

\* the steps a PrepareTransaction went through, in order
PrepareSteps(cfg, generated) ==
    IF generated.kind = "throw" THEN <<>>
    ELSE IF deserialize(generated.value).kind = "throw" THEN <<"deserialize">>
    ELSE <<"deserialize", "sign">>

\* a catch that rethrows the error it caught
buyTokenRethrow(c) == c

buyTokenCatch(c) ==
    IF c.kind = "throw" THEN Throw(Error("Failed to buy token: " \o ErrorToString(c.error)))
    ELSE c

\* a catch that answers a placeholder in place of the failure, as the read operations do
sellTokenDegrades(c) ==
    IF c.kind = "throw"
    THEN Return(Obj(<<<<"success", Bool(FALSE)>>, <<"status", Str("unknown")>>,
                      <<"note", Str("Transaction status not available")>>>>))
    ELSE c

sellTokenCatch(c) ==
    IF c.kind = "throw" THEN Throw(Error("Failed to sell token: " \o ErrorToString(c.error)))
    ELSE c

\* a result that reports the transaction as confirmed
buyTokenResultConfirmed(signature, tokenAddress, amount) ==
    Obj(<<<<"success", Bool(TRUE)>>, <<"transactionId", signature>>,
          <<"tokenAddress", tokenAddress>>, <<"amountSol", amount>>,
          <<"status", Str("confirmed")>>,
          <<"explorerUrl", Str("https://solscan.io/tx/" \o signature.s)>>>>)

buyTokenResult(signature, tokenAddress, amount) ==
    Obj(<<<<"success", Bool(TRUE)>>, <<"transactionId", signature>>,
          <<"tokenAddress", tokenAddress>>, <<"amountSol", amount>>,
          <<"status", Str("sent")>>,
          <<"explorerUrl", Str("https://solscan.io/tx/" \o signature.s)>>>>)

sellTokenResult(signature, tokenAddress, amount) ==
    Obj(<<<<"success", Bool(TRUE)>>, <<"transactionId", signature>>,
          <<"tokenAddress", tokenAddress>>, <<"amount", amount>>,
          <<"status", Str("sent")>>,
          <<"explorerUrl", Str("https://solscan.io/tx/" \o signature.s)>>>>)

TokenPricePlaceholder(tokenAddress) ==
    Obj(<<<<"address", tokenAddress>>, <<"usdPrice", Null>>,
          <<"nativePrice", Obj(<<<<"value", Null>>, <<"decimals", Num("9")>>,
                                 <<"name", Str("Wrapped Solana")>>,
                                 <<"symbol", Str("WSOL")>>>>)>>,
          <<"note", Str("Price information not available without Moralis API key")>>>>)

\* PumpFunTrading.getTokenPrice once its Moralis call (if any) is over
getTokenPrice(tokenAddress, moralis) ==
    IF moralis.kind = "return" THEN Return(moralis.value)
    ELSE Return(TokenPricePlaceholder(tokenAddress))

GraduatedPlaceholder(now) ==
    Obj(<<<<"result",
            Arr(<<Obj(<<<<"tokenAddress", Str("placeholder123456789")>>,
                        <<"name", Str("Placeholder Token")>>, <<"symbol", Str("PLACE")>>,
                        <<"logo", Str("")>>, <<"decimals", Str("9")>>,
                        <<"priceNative", Str("0.000001")>>, <<"priceUsd", Str("0.00015")>>,
                        <<"liquidity", Str("10000")>>,
                        <<"fullyDilutedValuation", Str("150000")>>,
                        <<"graduatedAt", Str(now.iso)>>>>)>>)>>,
          <<"note", Str("Placeholder data. For real graduated token data, please provide a valid Moralis API key.")>>>>)

\* PumpFunTrading.getGraduatedTokens once its Moralis call (if any) is over
getGraduatedTokens(moralis, now) ==
    IF moralis.kind = "return" THEN Return(moralis.value)
    ELSE Return(GraduatedPlaceholder(now))

\* the completion standing for "no Moralis client, no call made"
NoMoralis == Throw(Error("Moralis API not available"))

(***************************************************************************)
(* TwitterAPI.  Math.random() is a stream fixed by a seed.                 *)
(***************************************************************************)
Random(seed, k, range) == (((seed + 37 * k) % 100) * range) \div 100

IntegerTexts == [i \in -1..10 |-> ToString(i)]

IsArrayLength(count) ==
    count.t = "number" /\ \E i \in 0..10 : IntegerTexts[i] = count.n

ArrayLength(count) == CHOOSE i \in 0..10 : IntegerTexts[i] = count.n

Tweet(id, text, now, likes, retweets, replies) ==
    Obj(<<<<"id", Str(id)>>, <<"text", Str(text)>>, <<"createdAt", Str(now.iso)>>,
          <<"authorId", Str("user123")>>, <<"authorName", Str("Sample User")>>,
          <<"authorUsername", Str("sampleuser")>>, <<"likeCount", Num(ToString(likes))>>,
          <<"retweetCount", Num(ToString(retweets))>>,
          <<"replyCount", Num(ToString(replies))>>>>)

\* a search that returns one message more than it was asked for
searchTweetsOneMore(query, count, now, seed) ==
    IF ~IsArrayLength(count)
    THEN Throw([name |-> "RangeError", message |-> "Invalid array length"])
    ELSE Return(Arr([k \in 1..(ArrayLength(count) + 1) |->
             Tweet("tweet_" \o ToString(k - 1) \o "_" \o now.ms,
                   "This is a sample tweet about " \o query.s \o " #" \o ToString(k - 1),
                   now, Random(seed, 3 * k - 2, 100), Random(seed, 3 * k - 1, 20),
                   Random(seed, 3 * k, 10))]))

searchTweets(query, count, now, seed) ==
    IF ~IsArrayLength(count)
    THEN Throw([name |-> "RangeError", message |-> "Invalid array length"])
    ELSE Return(Arr([k \in 1..ArrayLength(count) |->
             Tweet("tweet_" \o ToString(k - 1) \o "_" \o now.ms,
                   "This is a sample tweet about " \o query.s \o " #" \o ToString(k - 1),
                   now, Random(seed, 3 * k - 2, 100), Random(seed, 3 * k - 1, 20),
                   Random(seed, 3 * k, 10))]))

\* no TwitterAPI instance
NoTwitter == [accessToken |-> Undefined, accessTokenSecret |-> Undefined]

\* new TwitterAPI(apiKey, apiKeySecret, accessToken, accessTokenSecret), made when both
\* API keys are configured
TwitterAPIConstructor(cfg) ==
    IF Truthy(cfg["TWITTER_API_KEY"]) /\ Truthy(cfg["TWITTER_API_KEY_SECRET"])
    THEN [accessToken |-> cfg["TWITTER_ACCESS_TOKEN"],
          accessTokenSecret |-> cfg["TWITTER_ACCESS_TOKEN_SECRET"]]
    ELSE NoTwitter

\* TwitterAPI.setCredentials
setCredentials(api, accessToken, accessTokenSecret) ==
    [api EXCEPT !.accessToken = accessToken, !.accessTokenSecret = accessTokenSecret]

\* the access tokens a holder of the instance hands to setCredentials
CredentialChoices == {<<Str("tok"), Str("sec")>>, <<Str(""), Str("")>>}

\* a postTweet that does not look at the access tokens
postTweetUnchecked(api, text, now) == Return(Tweet("tweet_" \o now.ms, text.s, now, 0, 0, 0))

postTweet(api, text, now) ==
    IF ~Truthy(api.accessToken) \/ ~Truthy(api.accessTokenSecret)
    THEN Throw(Error("Access tokens not set. Cannot post tweet."))
    ELSE Return(Tweet("tweet_" \o now.ms, text.s, now, 0, 0, 0))

(***************************************************************************)
(* Tool handlers: the try / catch around each provider call.               *)
(***************************************************************************)
ToolResult(text, isError) ==
    [content |-> <<[type |-> "text", text |-> text]>>, isError |-> isError]

SuccessText(tool, value) ==
    CASE tool \in {"buy_token", "sell_token"} ->
           "Transaction initiated: " \o JSONstringify(value, "  ")
      [] tool = "post_tweet" -> "Tweet posted successfully: " \o JSONstringify(value, "  ")
      [] OTHER -> JSONstringify(value, "  ")

ErrorPrefix(b, tool) ==
    IF b = "zod" THEN "Error: "
    ELSE CASE tool = "search_tokens" -> "Error searching tokens: "
           [] tool = "get_trending_tokens" -> "Error fetching trending tokens: "
           [] tool = "get_graduated_tokens" -> "Error fetching graduated tokens: "
           [] tool = "get_token_info" -> "Error fetching token info: "
           [] tool = "get_token_price" -> "Error fetching token price: "
           [] tool = "buy_token" -> "Error buying token: "
           [] tool = "sell_token" -> "Error selling token: "
           [] tool = "search_tweets" -> "Error searching tweets: "
           [] tool = "post_tweet" -> "Error posting tweet: "

\* a handler whose catch is missing
handlerWithoutCatch(b, tool, c) ==
    IF c.kind = "return"
    THEN Return(ToolResult(SuccessText(tool, c.value), IF b = "zod" THEN "absent" ELSE "false"))
    ELSE Throw(c.error)

\* a handler that prints the error object, not its message
handlerPrintsError(b, tool, c) ==
    IF c.kind = "return"
    THEN Return(ToolResult(SuccessText(tool, c.value), IF b = "zod" THEN "absent" ELSE "false"))
    ELSE Return(ToolResult(ErrorPrefix(b, tool) \o ErrorToString(c.error), "true"))

handler(b, tool, c) ==
    IF c.kind = "return"
    THEN Return(ToolResult(SuccessText(tool, c.value), IF b = "zod" THEN "absent" ELSE "false"))
    ELSE Return(ToolResult(ErrorPrefix(b, tool) \o c.error.message, "true"))

\* `params.x ?? d` and the destructuring default `x = d`
OrDefault(v, d) == IF v.t = "undefined" THEN d ELSE v

(***************************************************************************)
(* The gateway in front of the handlers: lookup of the tool, validation of *)
(* the arguments against its input schema.                                 *)
(***************************************************************************)
BadParams(tool, args) ==
    LET schema == DeclaredSchema(build, tool)
    IN {k \in 1..Len(schema) :
           \/ schema[k].required /\ args[schema[k].name].t = "undefined"
           \/ args[schema[k].name].t \notin {"undefined", schema[k].type}}

GatewayCheck(regs, name, args) ==
    IF name \notin regs THEN "unknown"
    ELSE IF BadParams(name, args) # {} THEN "invalid"
    ELSE "ok"

Min(S) == CHOOSE x \in S : \A y \in S : x <= y

GatewayError(regs, name, args) ==
    IF name \notin regs
    THEN ToolResult("Error: unknown operation " \o name, "true")
    ELSE ToolResult("Error: invalid argument "
                    \o DeclaredSchema(build, name)[Min(BadParams(name, args))].name, "true")

(***************************************************************************)
(* Invocations in flight.                                                  *)
(***************************************************************************)
IdleSlot ==
    [pc |-> "idle", tool |-> "", args |-> NoArgs, results |-> <<>>, fault |-> NoError,
     handlerRan |-> FALSE, outcome |-> Return(Undefined), request |-> NoRequest,
     apiCalls |-> 0, rpcCalls |-> 0, moralisCalls |-> 0, moralisFailures |-> 0,
     steps |-> <<>>, failure |-> NoError, provider |-> "", url |-> "",
     signature |-> Undefined, heard |-> <<>>, credentials |-> NoTwitter,
     responsive |-> TRUE]

Begun(tool, args) == [IdleSlot EXCEPT !.tool = tool, !.args = args, !.handlerRan = TRUE]

\* the provider call of the slot's handler is over with completion c
Settled(slot, c) ==
    LET hc == handler(build, slot.tool, c)
    IN [slot EXCEPT !.pc = IF hc.kind = "return" THEN "done" ELSE "escaped",
                    !.results = IF hc.kind = "return" THEN Append(@, hc.value) ELSE @,
                    !.fault = hc.error,
                    !.outcome = c]

\* the answers of external calls an invocation has received, kept where several
\* invocations are in flight, and whether each of them was the answer of a responsive
\* provider
Heard(before, answer, after) ==
    LET told == [after EXCEPT !.responsive = before.responsive /\ Responsive(answer)]
    IN IF Len(inv) > 1 THEN [told EXCEPT !.heard = Append(before.heard, answer)] ELSE told

Free(i) == phase = "serving" /\ inv[i].pc \in {"idle", "done", "escaped"}

Accepted(i, tool, args) == Free(i) /\ GatewayCheck(registered, tool, args) = "ok"

ToolNames == PumpFunTools("zod") \cup PumpFunTools("catalog") \cup TwitterTools \cup {"frobnicate"}

TradeOptionChoices ==
    {[slippage |-> Undefined, priorityFee |-> Undefined, pool |-> Undefined],
     [slippage |-> Num("0"), priorityFee |-> Num("0.0005"), pool |-> Str("raydium")]}

ArgChoices(tool) ==
    CASE tool = "search_tokens" -> {Args([query |-> q]) : q \in {Undefined, Str("sol")}}
      [] tool \in {"get_token_info", "get_token_price"} ->
           {Args([address |-> a]) : a \in {Undefined, Str("A")}}
      [] tool = "get_graduated_tokens" ->
           {Args([limit |-> l, cursor |-> c]) :
               l \in {Undefined, Num("5")}, c \in {Undefined, Str("c1")}}
      [] tool = "buy_token" ->
           {Args([address |-> a, solAmount |-> m, slippage |-> o.slippage,
                  priorityFee |-> o.priorityFee, pool |-> o.pool]) :
               a \in {Undefined, Str("A")}, m \in {Undefined, Num("1"), Str("1")},
               o \in TradeOptionChoices}
      [] tool = "sell_token" ->
           {Args([address |-> a, tokenAmount |-> m, slippage |-> o.slippage,
                  priorityFee |-> o.priorityFee, pool |-> o.pool]) :
               a \in {Undefined, Str("A")}, m \in {Undefined, Str("100%"), Str("50"), Num("50")},
               o \in TradeOptionChoices}
      [] tool = "search_tweets" ->
           {Args([query |-> q, count |-> n]) :
               q \in {Undefined, Str("sol")}, n \in {Undefined, Num("2"), Num("-1")}}
      [] tool = "post_tweet" -> {Args([text |-> x]) : x \in {Undefined, Str("gm")}}
      [] OTHER -> {NoArgs}

(***************************************************************************)
(* The ledger of external side effects of the write operations, kept over  *)
(* the invocations of a run when it is switched on.                        *)
(***************************************************************************)
MaxInvocations == 3

Untracked ==
    [on |-> FALSE, invocations |-> 0, requests |-> 0, submissions |-> 0, unanswered |-> 0,
     identical |-> TRUE, tool |-> "", args |-> NoArgs]

Tracked == [Untracked EXCEPT !.on = TRUE]

\* an invocation of a write operation enters its handler
LedgerInvocation(l, tool, args) ==
    IF ~l.on THEN l
    ELSE [l EXCEPT !.invocations = @ + 1,
                   !.identical = l.invocations = 0 \/ (@ /\ l.tool = tool /\ l.args = args),
                   !.tool = IF l.invocations = 0 THEN tool ELSE @,
                   !.args = IF l.invocations = 0 THEN args ELSE @]

\* axios.post to the trading API is issued
LedgerRequest(l) == IF l.on THEN [l EXCEPT !.requests = @ + 1] ELSE l

\* connection.sendTransaction is issued
LedgerSubmission(l) == IF l.on THEN [l EXCEPT !.submissions = @ + 1] ELSE l

\* a provider gave another answer than the good one
LedgerAnswer(l, good) == IF l.on /\ ~good THEN [l EXCEPT !.unanswered = @ + 1] ELSE l

LedgerOpen == ledger.on => ledger.invocations < MaxInvocations

(***************************************************************************)
(* The launcher: it spawns the server, filters the server's stdout onto    *)
(* its own, passes signals on and exits when the server has closed.        *)
(***************************************************************************)
MaxChunks == 2

MaxSignals == 2

\* the server run on its own, without the launcher in front of it
NoAdapter ==
    [state |-> "absent", chunks |-> <<>>, out |-> <<>>, diagnostics |-> <<>>, filtered |-> 0,
     received |-> <<>>, forwarded |-> <<>>, sent |-> <<>>, exitCode |-> -1]

\* spawn('node', ['build/server.js'], {stdio: ['inherit', 'pipe', 'inherit']})
Spawned == [NoAdapter EXCEPT !.state = "running"]

\* what a 'data' event of the server's stdout may carry: a protocol message, one
\* printed with a space after the colon, a line that is no message, such a line and a
\* message in one chunk, and a message cut in two by the pipe
ServerChunks ==
    {"{\"jsonrpc\":\"2.0\",\"id\":1,\"result\":{}}\n",
     "{\"jsonrpc\": \"2.0\", \"id\": 2, \"result\": {}}\n",
     "injecting env from .env\n",
     "injecting env from .env\n{\"jsonrpc\":\"2.0\",\"id\":1,\"result\":{}}\n",
     "{\"jsonrpc\":\"2.0\",\"id\":3,\"result\":{\"content\":[{\"type\":\"text\",",
     "\"text\":\"ok\"}]}}\n"}

\* String.prototype.trim
RECURSIVE TrimEnd(_)
TrimEnd(s) == IF Len(s) > 0 /\ Ch(s, Len(s)) \in Whitespace THEN TrimEnd(SubSeq(s, 1, Len(s) - 1)) ELSE s

Trim(s) == LET start == SkipWs(s, 1) IN TrimEnd(SubSeq(s, start, Len(s)))

\* a filter that remembers a message it has begun to forward
PassesFilterOrContinues(data) ==
    LET output == Trim(data)
    IN \/ Contains(output, "\"jsonrpc\":\"2.0\"") \/ Contains(output, "\"jsonrpc\": \"2.0\"")
       \/ Len(output) > 0 /\ Ch(output, Len(output)) = "}" /\ Ch(output, 1) # "{"

\* the test of the 'data' handler on a chunk
PassesFilter(data) ==
    LET output == Trim(data)
    IN Contains(output, "\"jsonrpc\":\"2.0\"") \/ Contains(output, "\"jsonrpc\": \"2.0\"")

\* server.kill() without an argument sends SIGTERM
ForwardedSignalDefault(signal) == "SIGTERM"

\* the signal the handler hands to server.kill
ForwardedSignal(signal) == signal

\* process.exit(code): a null code (the server was ended by a signal) exits with 0
ProcessExit(code) == IF code = -1 THEN 0 ELSE code

(***************************************************************************)
(* Initial state and startup.                                              *)
(***************************************************************************)
\* the process before main() has run: no signal, no failure, no exit code (-1)
Fresh == [signal |-> "", closed |-> FALSE, killedBy |-> "", failed |-> ""]

Signals == {"SIGINT", "SIGTERM"}

Init ==
    /\ build \in Builds
    /\ env \in Environments
    /\ config = parseConfig(env)
    /\ twitter = NoTwitter
    /\ phase = "loaded"
    /\ exitCode = -1
    /\ lifecycle = Fresh
    /\ registered = {}
    /\ inv = <<IdleSlot>>
    /\ ledger = Untracked
    /\ adapter = NoAdapter

\* new PumpFunTrading(...): the one check of the constructor
PumpFunTradingConstructor(cfg) ==
    IF ~Truthy(cfg["WALLET_PUBLIC_KEY"])
    THEN Throw(Error("Wallet public key is required for trading"))
    ELSE Return(Undefined)

\* main() up to `await server.connect(transport)`: construct the providers (the
\* TwitterAPI instance after PumpFunTrading), register the tools; an exception goes to
\* main's catch, which exits with code 1
Start ==
    /\ phase = "loaded"
    /\ IF PumpFunTradingConstructor(config).kind = "throw"
       THEN /\ phase' = "exited"
            /\ exitCode' = 1
            /\ lifecycle' = [lifecycle EXCEPT !.failed = "constructor"]
            /\ UNCHANGED <<twitter, registered>>
       ELSE /\ phase' = "connecting"
            /\ twitter' = TwitterAPIConstructor(config)
            /\ registered' = RegisteredTools(build, config)
            /\ UNCHANGED <<exitCode, lifecycle>>
    /\ UNCHANGED <<build, env, config, inv, ledger, adapter>>

\* what server.connect(transport) answers
ConnectOutcomes == {Return(Undefined), Throw(Error("StdioServerTransport already started!"))}

\* server.connect(transport) is over: the signal handlers are installed, or main's
\* catch exits with code 1
ConnectAnswers(outcome) ==
    /\ phase = "connecting"
    /\ IF outcome.kind = "throw"
       THEN /\ phase' = "exited"
            /\ exitCode' = 1
            /\ lifecycle' = [lifecycle EXCEPT !.failed = "connect"]
       ELSE /\ phase' = "serving"
            /\ UNCHANGED <<exitCode, lifecycle>>
    /\ UNCHANGED <<build, env, config, twitter, registered, inv, ledger, adapter>>

\* a handler that exits without awaiting server.close()
ReceiveSignalExitsAtOnce(sig) ==
    /\ phase \in {"loaded", "connecting", "serving"}
    /\ phase' = "exited"
    /\ IF phase = "serving"
       THEN exitCode' = 0 /\ lifecycle' = [lifecycle EXCEPT !.signal = sig]
       ELSE exitCode' = exitCode /\ lifecycle' = [lifecycle EXCEPT !.killedBy = sig]
    /\ UNCHANGED <<build, env, config, twitter, registered, inv, ledger>>

\* SIGINT / SIGTERM reaches the server process.  Before the handlers are installed the
\* signal ends the process (no exit code); once they are, the handler awaits
\* server.close(); while that close is awaited a further signal changes nothing.
ReceiveSignal(sig) ==
    /\ phase \in {"loaded", "connecting", "serving"}
    /\ IF phase = "serving"
       THEN /\ phase' = "closing"
            /\ lifecycle' = [lifecycle EXCEPT !.signal = sig]
       ELSE /\ phase' = "exited"
            /\ lifecycle' = [lifecycle EXCEPT !.killedBy = sig]
    /\ UNCHANGED <<build, env, config, twitter, exitCode, registered, inv, ledger>>

Signal(sig) == ReceiveSignal(sig) /\ UNCHANGED adapter

\* server.close() is over: process.exit(0)
CloseAnswers ==
    /\ phase = "closing"
    /\ phase' = "exited"
    /\ exitCode' = 0
    /\ lifecycle' = [lifecycle EXCEPT !.closed = TRUE]
    /\ UNCHANGED <<build, env, config, twitter, registered, inv, ledger, adapter>>

\* the event loop of the server process is running
Alive == phase \in {"serving", "closing"}

(***************************************************************************)
(* Invocations the gateway turns down.                                     *)
(***************************************************************************)
InvokeRejected(i, name, args) ==
    /\ Free(i)
    /\ GatewayCheck(registered, name, args) # "ok"
    /\ inv' = [inv EXCEPT ![i] =
                  [IdleSlot EXCEPT !.pc = "done", !.tool = name, !.args = args,
                                   !.results = <<GatewayError(registered, name, args)>>]]
    /\ UNCHANGED <<build, env, config, twitter, phase, exitCode, lifecycle, registered, ledger, adapter>>

(***************************************************************************)
(* The tools.  An action runs a handler up to its next external call; the  *)
(* answer of that call is a separate action.                               *)
(***************************************************************************)
frame == <<build, env, config, twitter, phase, exitCode, lifecycle, registered, ledger, adapter>>

tradeFrame == <<build, env, config, twitter, phase, exitCode, lifecycle, registered, adapter>>

\* search_tokens: pumpFunTrading.searchTokens in the servers, api.searchTokens in the
\* catalogue
CallSearchTokens(i, args, provider) ==
    /\ Accepted(i, "search_tokens", args)
    /\ LET answer == ProviderSearchTokens(provider, args["query"])
       IN inv' = [inv EXCEPT ![i] =
                     Settled([Begun("search_tokens", args) EXCEPT !.provider = provider],
                             IF build \in Catalogues THEN answer
                             ELSE TradingSearchTokens(args["query"], answer))]
    /\ UNCHANGED frame

\* the object the get_trending_tokens handler of a build calls getTrendingTokens on
TrendingReceiver(b) == IF b = "providerCatalog" THEN "api" ELSE "pumpFunTrading"

\* neither PumpFunTrading nor PumpFunAPI has a getTrendingTokens method
CallTrendingTokens(i, args) ==
    /\ Accepted(i, "get_trending_tokens", args)
    /\ inv' = [inv EXCEPT ![i] =
                  Settled(Begun("get_trending_tokens", args),
                          Throw([name |-> "TypeError",
                                 message |-> TrendingReceiver(build)
                                                \o ".getTrendingTokens is not a function"]))]
    /\ UNCHANGED frame

\* get_token_info: PumpFunTrading.getTokenInfo in the servers, PumpFunAPI.getTokenInfo
\* in the catalogue
CallTokenInfo(i, args) ==
    /\ Accepted(i, "get_token_info", args)
    /\ inv' = [inv EXCEPT ![i] =
                  IF moralisApi(config)
                  THEN [Begun("get_token_info", args) EXCEPT
                           !.pc = IF build \in Catalogues THEN "moralisApi" ELSE "moralis",
                           !.moralisCalls = 1]
                  ELSE Settled(Begun("get_token_info", args),
                               ApiGetTokenInfo(args["address"], NoMoralis))]
    /\ UNCHANGED frame

\* an orchestrator that resumes only while no other invocation is suspended
TokenInfoMoralisAnswersInTurn(i, response) ==
    /\ Alive
    /\ \A j \in Slots \ {i} : inv[j].pc \notin {"api", "rpc", "moralis", "moralisApi"}
    /\ inv[i].pc = "moralis"
    /\ inv[i].tool = "get_token_info"
    /\ LET c == getTokenMetadata(response)
       IN inv' = [inv EXCEPT ![i] =
                     Heard(inv[i], response,
                           IF c.kind = "return" THEN Settled(inv[i], c)
                           ELSE [inv[i] EXCEPT !.pc = "moralisApi",
                                               !.moralisCalls = @ + 1,
                                               !.moralisFailures = @ + 1])]
    /\ UNCHANGED frame

\* an orchestrator that answers the placeholder after the first failure
TokenInfoMoralisAnswersOnce(i, response) ==
    /\ Alive
    /\ inv[i].pc = "moralis"
    /\ inv[i].tool = "get_token_info"
    /\ LET c == getTokenMetadata(response)
       IN inv' = [inv EXCEPT ![i] =
                     Settled([inv[i] EXCEPT !.moralisFailures =
                                               IF c.kind = "throw" THEN @ + 1 ELSE @],
                             ApiGetTokenInfo(inv[i].args["address"], c))]
    /\ UNCHANGED frame

TokenInfoMoralisAnswers(i, response) ==
    /\ Alive
    /\ inv[i].pc = "moralis"
    /\ inv[i].tool = "get_token_info"
    /\ LET c == getTokenMetadata(response)
       IN inv' = [inv EXCEPT ![i] =
                     Heard(inv[i], response,
                           IF c.kind = "return" THEN Settled(inv[i], c)
                           ELSE [inv[i] EXCEPT !.pc = "moralisApi",
                                               !.moralisCalls = @ + 1,
                                               !.moralisFailures = @ + 1])]
    /\ UNCHANGED frame

TokenInfoApiAnswers(i, response) ==
    /\ Alive
    /\ inv[i].pc = "moralisApi"
    /\ inv[i].tool = "get_token_info"
    /\ LET c == getTokenMetadata(response)
       IN inv' = [inv EXCEPT ![i] =
                     Heard(inv[i], response,
                           Settled([inv[i] EXCEPT !.moralisFailures =
                                                     IF c.kind = "throw" THEN @ + 1 ELSE @],
                                   ApiGetTokenInfo(inv[i].args["address"], c)))]
    /\ UNCHANGED frame

CallTokenPrice(i, args) ==
    /\ Accepted(i, "get_token_price", args)
    /\ inv' = [inv EXCEPT ![i] =
                  IF moralisApi(config)
                  THEN [Begun("get_token_price", args) EXCEPT !.pc = "moralis",
                                                              !.moralisCalls = 1]
                  ELSE Settled(Begun("get_token_price", args),
                               getTokenPrice(args["address"], NoMoralis))]
    /\ UNCHANGED frame

TokenPriceMoralisAnswers(i, response) ==
    /\ Alive
    /\ inv[i].pc = "moralis"
    /\ inv[i].tool = "get_token_price"
    /\ LET c == MoralisGetTokenPrice(response)
       IN inv' = [inv EXCEPT ![i] =
                     Heard(inv[i], response,
                           Settled([inv[i] EXCEPT !.moralisFailures =
                                                     IF c.kind = "throw" THEN @ + 1 ELSE @],
                                   getTokenPrice(inv[i].args["address"], c)))]
    /\ UNCHANGED frame

\* the address MoralisApi.getGraduatedTokens asks for
GraduatedUrl(limit, cursor) ==
    "https://solana-gateway.moralis.io/token/mainnet/exchange/pumpfun/graduated?limit="
        \o limit.n \o (IF Truthy(cursor) THEN "&cursor=" \o cursor.s ELSE "")

CallGraduatedTokens(i, args, now) ==
    /\ Accepted(i, "get_graduated_tokens", args)
    /\ inv' = [inv EXCEPT ![i] =
                  IF moralisApi(config)
                  THEN [Begun("get_graduated_tokens", args) EXCEPT
                           !.pc = "moralis",
                           !.moralisCalls = 1,
                           !.url = GraduatedUrl(OrDefault(args["limit"], Num("100")),
                                                args["cursor"])]
                  ELSE Settled(Begun("get_graduated_tokens", args),
                               getGraduatedTokens(NoMoralis, now))]
    /\ UNCHANGED frame

GraduatedMoralisAnswers(i, response, now) ==
    /\ Alive
    /\ inv[i].pc = "moralis"
    /\ inv[i].tool = "get_graduated_tokens"
    /\ LET c == MoralisGetGraduatedTokens(response)
       IN inv' = [inv EXCEPT ![i] =
                     Heard(inv[i], response,
                           Settled([inv[i] EXCEPT !.moralisFailures =
                                                     IF c.kind = "throw" THEN @ + 1 ELSE @],
                                   getGraduatedTokens(c, now)))]
    /\ UNCHANGED frame

\* a trade option as the handler hands it to PumpFunTrading: the handlers of the
\* catalogue in providers/pumpFun.ts call trading.buyToken(address, solAmount) and
\* trading.sellToken(address, tokenAmount), with no option
Passed(b, option) == IF b = "providerCatalog" THEN Undefined ELSE option

\* buy_token: validateWallet, then step 1 (the request to the trading API)
CallBuyToken(i, args) ==
    /\ Accepted(i, "buy_token", args)
    /\ LedgerOpen
    /\ LET slot == [Begun("buy_token", args) EXCEPT !.steps = <<"validateWallet">>]
           wallet == validateWallet(config)
       IN inv' = [inv EXCEPT ![i] =
                     IF wallet.kind = "throw"
                     THEN Settled([slot EXCEPT !.failure = wallet.error], buyTokenCatch(wallet))
                     ELSE [slot EXCEPT
                              !.pc = "api",
                              !.apiCalls = 1,
                              !.steps = Append(@, "request"),
                              !.request = generateBuyTransactionRequest(
                                              config["WALLET_PUBLIC_KEY"], args["address"],
                                              args["solAmount"], TRUE,
                                              OrDefault(Passed(build, args["slippage"]), Num("1")),
                                              OrDefault(Passed(build, args["priorityFee"]), Num("0.00001")),
                                              OrDefault(Passed(build, args["pool"]), Str("pump")))]]
    /\ ledger' = IF validateWallet(config).kind = "throw"
                  THEN LedgerInvocation(ledger, "buy_token", args)
                  ELSE LedgerRequest(LedgerInvocation(ledger, "buy_token", args))
    /\ UNCHANGED tradeFrame

CallSellToken(i, args) ==
    /\ Accepted(i, "sell_token", args)
    /\ LedgerOpen
    /\ LET slot == [Begun("sell_token", args) EXCEPT !.steps = <<"validateWallet">>]
           wallet == validateWallet(config)
       IN inv' = [inv EXCEPT ![i] =
                     IF wallet.kind = "throw"
                     THEN Settled([slot EXCEPT !.failure = wallet.error], sellTokenCatch(wallet))
                     ELSE [slot EXCEPT
                              !.pc = "api",
                              !.apiCalls = 1,
                              !.steps = Append(@, "request"),
                              !.request = generateSellTransactionRequest(
                                              config["WALLET_PUBLIC_KEY"], args["address"],
                                              args["tokenAmount"], FALSE,
                                              OrDefault(Passed(build, args["slippage"]), Num("1")),
                                              OrDefault(Passed(build, args["priorityFee"]), Num("0.00001")),
                                              OrDefault(Passed(build, args["pool"]), Str("pump")))]]
    /\ ledger' = IF validateWallet(config).kind = "throw"
                  THEN LedgerInvocation(ledger, "sell_token", args)
                  ELSE LedgerRequest(LedgerInvocation(ledger, "sell_token", args))
    /\ UNCHANGED tradeFrame

\* the trading API answers: steps 2 and 3, then step 4 (the submission) is sent
BuyApiAnswers(i, response) ==
    /\ Alive
    /\ inv[i].pc = "api"
    /\ inv[i].tool = "buy_token"
    /\ LET generated == generateBuyTransaction(response)
           signed == PrepareTransaction(config, generated)
           slot == [inv[i] EXCEPT !.steps = @ \o PrepareSteps(config, generated),
                                  !.failure = IF response.kind = "throw" THEN response.error
                                              ELSE signed.error]
       IN inv' = [inv EXCEPT ![i] =
                     Heard(inv[i], response,
                           IF signed.kind = "throw" THEN Settled(slot, buyTokenCatch(signed))
                           ELSE [slot EXCEPT !.pc = "rpc", !.rpcCalls = @ + 1,
                                             !.steps = Append(@, "submit")])]
    /\ ledger' = LET answered == LedgerAnswer(ledger, response = GoodApiResponse)
                  IN IF PrepareTransaction(config, generateBuyTransaction(response)).kind = "throw"
                     THEN answered
                     ELSE LedgerSubmission(answered)
    /\ UNCHANGED tradeFrame

SellApiAnswers(i, response) ==
    /\ Alive
    /\ inv[i].pc = "api"
    /\ inv[i].tool = "sell_token"
    /\ LET generated == generateSellTransaction(response)
           signed == PrepareTransaction(config, generated)
           slot == [inv[i] EXCEPT !.steps = @ \o PrepareSteps(config, generated),
                                  !.failure = IF response.kind = "throw" THEN response.error
                                              ELSE signed.error]
       IN inv' = [inv EXCEPT ![i] =
                     Heard(inv[i], response,
                           IF signed.kind = "throw" THEN Settled(slot, sellTokenCatch(signed))
                           ELSE [slot EXCEPT !.pc = "rpc", !.rpcCalls = @ + 1,
                                             !.steps = Append(@, "submit")])]
    /\ ledger' = LET answered == LedgerAnswer(ledger, response = GoodApiResponse)
                  IN IF PrepareTransaction(config, generateSellTransaction(response)).kind = "throw"
                     THEN answered
                     ELSE LedgerSubmission(answered)
    /\ UNCHANGED tradeFrame

\* a submission step that reads the arguments from a field the invocations share
BuyRpcAnswersShared(i, sent) ==
    /\ Alive
    /\ inv[i].pc = "rpc"
    /\ inv[i].tool = "buy_token"
    /\ inv' = [inv EXCEPT ![i] =
                  Heard(inv[i], sent,
                        Settled([inv[i] EXCEPT !.failure = sent.error,
                                               !.signature = IF sent.kind = "return" THEN sent.value
                                                             ELSE Undefined],
                                IF sent.kind = "throw" THEN buyTokenCatch(sent)
                                ELSE Return(buyTokenResult(sent.value,
                                                           inv[Len(inv)].args["address"],
                                                           inv[Len(inv)].args["solAmount"]))))]
    /\ ledger' = LedgerAnswer(ledger, sent = GoodRpcResponse)
    /\ UNCHANGED tradeFrame

\* connection.sendTransaction answers
BuyRpcAnswers(i, sent) ==
    /\ Alive
    /\ inv[i].pc = "rpc"
    /\ inv[i].tool = "buy_token"
    /\ inv' = [inv EXCEPT ![i] =
                  Heard(inv[i], sent,
                        Settled([inv[i] EXCEPT !.failure = sent.error,
                                               !.signature = IF sent.kind = "return" THEN sent.value
                                                             ELSE Undefined],
                                IF sent.kind = "throw" THEN buyTokenCatch(sent)
                                ELSE Return(buyTokenResult(sent.value, inv[i].args["address"],
                                                           inv[i].args["solAmount"]))))]
    /\ ledger' = LedgerAnswer(ledger, sent = GoodRpcResponse)
    /\ UNCHANGED tradeFrame

SellRpcAnswers(i, sent) ==
    /\ Alive
    /\ inv[i].pc = "rpc"
    /\ inv[i].tool = "sell_token"
    /\ inv' = [inv EXCEPT ![i] =
                  Heard(inv[i], sent,
                        Settled([inv[i] EXCEPT !.failure = sent.error,
                                               !.signature = IF sent.kind = "return" THEN sent.value
                                                             ELSE Undefined],
                                IF sent.kind = "throw" THEN sellTokenCatch(sent)
                                ELSE Return(sellTokenResult(sent.value, inv[i].args["address"],
                                                            inv[i].args["tokenAmount"]))))]
    /\ ledger' = LedgerAnswer(ledger, sent = GoodRpcResponse)
    /\ UNCHANGED tradeFrame

CallSearchTweets(i, args, now, seed) ==
    /\ Accepted(i, "search_tweets", args)
    /\ inv' = [inv EXCEPT ![i] =
                  Settled(Begun("search_tweets", args),
                          searchTweets(args["query"], OrDefault(args["count"], Num("10")),
                                       now, seed))]
    /\ UNCHANGED frame

CallPostTweet(i, args, now) ==
    /\ Accepted(i, "post_tweet", args)
    /\ inv' = [inv EXCEPT ![i] =
                  Settled([Begun("post_tweet", args) EXCEPT !.credentials = twitter],
                          postTweet(twitter, args["text"], now))]
    /\ UNCHANGED frame

\* the holder of the TwitterAPI instance handed to createTwitterTools replaces its access
\* tokens; in the servers the instance is a local of main and nothing calls the method
SetCredentials(accessToken, accessTokenSecret) ==
    /\ build \in Catalogues
    /\ twitterApi(config)
    /\ phase \in {"connecting", "serving", "closing"}
    /\ twitter' = setCredentials(twitter, accessToken, accessTokenSecret)
    /\ UNCHANGED <<build, env, config, phase, exitCode, lifecycle, registered, inv, ledger, adapter>>

Next ==
    \/ Start
    \/ \E outcome \in ConnectOutcomes : ConnectAnswers(outcome)
    \/ \E sig \in Signals : Signal(sig)
    \/ CloseAnswers
    \/ \E i \in Slots, name \in ToolNames : \E args \in ArgChoices(name) :
          InvokeRejected(i, name, args)
    \/ \E i \in Slots, provider \in SearchProviders : \E args \in ArgChoices("search_tokens") :
          CallSearchTokens(i, args, provider)
    \/ \E i \in Slots : \E args \in ArgChoices("get_trending_tokens") :
          CallTrendingTokens(i, args)
    \/ \E i \in Slots : \E args \in ArgChoices("get_token_info") : CallTokenInfo(i, args)
    \/ \E i \in Slots, response \in MoralisResponses : TokenInfoMoralisAnswers(i, response)
    \/ \E i \in Slots, response \in MoralisResponses : TokenInfoApiAnswers(i, response)
    \/ \E i \in Slots : \E args \in ArgChoices("get_token_price") : CallTokenPrice(i, args)
    \/ \E i \in Slots, response \in MoralisResponses : TokenPriceMoralisAnswers(i, response)
    \/ \E i \in Slots, now \in Clock : \E args \in ArgChoices("get_graduated_tokens") :
          CallGraduatedTokens(i, args, now)
    \/ \E i \in Slots, response \in MoralisResponses, now \in Clock :
          GraduatedMoralisAnswers(i, response, now)
    \/ \E i \in Slots : \E args \in ArgChoices("buy_token") : CallBuyToken(i, args)
    \/ \E i \in Slots : \E args \in ArgChoices("sell_token") : CallSellToken(i, args)
    \/ \E i \in Slots, response \in ApiResponses : BuyApiAnswers(i, response)
    \/ \E i \in Slots, response \in ApiResponses : SellApiAnswers(i, response)
    \/ \E i \in Slots, sent \in RpcResponses : BuyRpcAnswers(i, sent)
    \/ \E i \in Slots, sent \in RpcResponses : SellRpcAnswers(i, sent)
    \/ \E i \in Slots, now \in Clock, seed \in Seeds :
          \E args \in ArgChoices("search_tweets") : CallSearchTweets(i, args, now, seed)
    \/ \E i \in Slots, now \in Clock : \E args \in ArgChoices("post_tweet") :
          CallPostTweet(i, args, now)
    \/ \E given \in CredentialChoices : SetCredentials(given[1], given[2])

Spec == Init /\ [][Next]_vars

(***************************************************************************)
(* A run of write operations with the ledger switched on: a wallet, no     *)
(* Moralis key, no Twitter keys.                                           *)
(***************************************************************************)
WalletEnvironments ==
    {e \in Environments :
        \A k \in ConfigKeys \ {"WALLET_PUBLIC_KEY", "WALLET_PRIVATE_KEY"} : e[k] = Undefined}

TradeInit ==
    /\ build \in Builds
    /\ env \in WalletEnvironments
    /\ config = parseConfig(env)
    /\ twitter = NoTwitter
    /\ phase = "loaded"
    /\ exitCode = -1
    /\ lifecycle = Fresh
    /\ registered = {}
    /\ inv = <<IdleSlot>>
    /\ ledger = Tracked
    /\ adapter = NoAdapter

TradeNext ==
    \/ Start
    \/ \E outcome \in ConnectOutcomes : ConnectAnswers(outcome)
    \/ \E i \in Slots, name \in {"buy_token", "sell_token"} : \E args \in ArgChoices(name) :
          InvokeRejected(i, name, args)
    \/ \E i \in Slots : \E args \in ArgChoices("buy_token") : CallBuyToken(i, args)
    \/ \E i \in Slots : \E args \in ArgChoices("sell_token") : CallSellToken(i, args)
    \/ \E i \in Slots, response \in ApiResponses : BuyApiAnswers(i, response)
    \/ \E i \in Slots, response \in ApiResponses : SellApiAnswers(i, response)
    \/ \E i \in Slots, sent \in RpcResponses : BuyRpcAnswers(i, sent)
    \/ \E i \in Slots, sent \in RpcResponses : SellRpcAnswers(i, sent)

TradeSpec == TradeInit /\ [][TradeNext]_vars

(***************************************************************************)
(* The launcher in front of the server.                                    *)
(***************************************************************************)
\* server.stdout.on('data')
AdapterData(data) ==
    /\ adapter.state = "running"
    /\ Len(adapter.out) + adapter.filtered < MaxChunks
    /\ adapter' = IF PassesFilter(data)
                  THEN [adapter EXCEPT !.chunks = Append(@, data), !.out = Append(@, data)]
                  ELSE [adapter EXCEPT !.chunks = Append(@, data), !.filtered = @ + 1,
                                       !.diagnostics =
                                           Append(@, "Filtered non-JSON-RPC output\n")]
    /\ UNCHANGED <<build, env, config, twitter, phase, exitCode, lifecycle, registered, inv, ledger>>

\* process.on(signal): server.kill(signal) sends the signal to the server process, if
\* that still runs, and the callback of the launcher returns
AdapterSignal(signal) ==
    /\ adapter.state = "running"
    /\ Len(adapter.received) < MaxSignals
    /\ adapter' = [adapter EXCEPT !.received = Append(@, signal),
                                  !.forwarded = Append(@, ForwardedSignal(signal)),
                                  !.sent = IF phase = "exited" THEN @
                                           ELSE Append(@, ForwardedSignal(signal))]
    /\ UNCHANGED <<build, env, config, twitter, phase, exitCode, lifecycle, registered, inv, ledger>>

\* all of a sequence but its k-th element
Without(seq, k) == SubSeq(seq, 1, k - 1) \o SubSeq(seq, k + 1, Len(seq))

\* a signal the launcher has sent reaches the event loop of the server process, later
\* than the launcher's callback and in no fixed order with the other signals sent;
\* while server.close() is awaited it changes nothing
AdapterSignalArrives(k) ==
    /\ phase # "exited"
    /\ k \in 1..Len(adapter.sent)
    /\ adapter' = [adapter EXCEPT !.sent = Without(@, k)]
    /\ IF phase \in {"loaded", "connecting", "serving"}
       THEN ReceiveSignal(adapter.sent[k])
       ELSE UNCHANGED <<build, env, config, twitter, phase, exitCode, lifecycle, registered, inv, ledger>>

\* server.on('close'): process.exit(code)
AdapterClose ==
    /\ adapter.state = "running"
    /\ phase = "exited"
    /\ adapter' = [adapter EXCEPT !.state = "exited", !.exitCode = ProcessExit(exitCode)]
    /\ UNCHANGED <<build, env, config, twitter, phase, exitCode, lifecycle, registered, inv, ledger>>

AdapterEnvironments == {e \in WalletEnvironments : e["WALLET_PRIVATE_KEY"] = Undefined}

AdapterInit ==
    /\ build = "schema"
    /\ env \in AdapterEnvironments
    /\ config = parseConfig(env)
    /\ twitter = NoTwitter
    /\ phase = "loaded"
    /\ exitCode = -1
    /\ lifecycle = Fresh
    /\ registered = {}
    /\ inv = <<IdleSlot>>
    /\ ledger = Untracked
    /\ adapter = Spawned

AdapterNext ==
    \/ Start
    \/ \E outcome \in ConnectOutcomes : ConnectAnswers(outcome)
    \/ \E sig \in Signals : Signal(sig)
    \/ CloseAnswers
    \/ \E data \in ServerChunks : AdapterData(data)
    \/ \E sig \in Signals : AdapterSignal(sig)
    \/ \E k \in 1..MaxSignals : AdapterSignalArrives(k)
    \/ AdapterClose

AdapterSpec == AdapterInit /\ [][AdapterNext]_vars

\* a signal sent to the server process reaches it, server.close() settles, and the
\* 'close' event of an ended server is delivered
AdapterFairSpec ==
    /\ AdapterSpec
    /\ WF_vars(\E k \in 1..MaxSignals : AdapterSignalArrives(k))
    /\ WF_vars(CloseAnswers)
    /\ WF_vars(AdapterClose)

(***************************************************************************)
(* Two invocations in flight at once: buy_token and get_token_info, whose  *)
(* handlers are suspended at one or two external calls, interleaved in     *)
(* every order.                                                            *)
(***************************************************************************)
MaxInFlight == 2

ConcurrentEnvironments ==
    {e \in Environments :
        /\ e["WALLET_PUBLIC_KEY"] = Str("PUBKEY")
        /\ e["WALLET_PRIVATE_KEY"] = Str("3xValidBase58Key")
        /\ \A k \in ConfigKeys \ {"WALLET_PUBLIC_KEY", "WALLET_PRIVATE_KEY", "MORALIS_API_KEY"} :
              e[k] = Undefined}

ConcurrentBuys == {Args([address |-> Str("A"), solAmount |-> Num("1")])}

ConcurrentInfos == {Args([address |-> Str("A")])}

ConcurrentInit ==
    /\ build \in Builds
    /\ env \in ConcurrentEnvironments
    /\ config = parseConfig(env)
    /\ twitter = NoTwitter
    /\ phase = "loaded"
    /\ exitCode = -1
    /\ lifecycle = Fresh
    /\ registered = {}
    /\ inv = [k \in 1..MaxInFlight |-> IdleSlot]
    /\ ledger = Untracked
    /\ adapter = NoAdapter

\* an external call of invocation i returns or fails, and its handler is resumed
ExternalCallReturns(i) ==
    \/ \E response \in ApiResponses : BuyApiAnswers(i, response)
    \/ \E sent \in RpcResponses : BuyRpcAnswers(i, sent)
    \/ \E response \in MoralisResponses : TokenInfoMoralisAnswers(i, response)
    \/ \E response \in MoralisResponses : TokenInfoApiAnswers(i, response)

ConcurrentNext ==
    \/ Start
    \/ \E outcome \in ConnectOutcomes : ConnectAnswers(outcome)
    \/ \E i \in Slots : \E args \in ConcurrentBuys : CallBuyToken(i, args)
    \/ \E i \in Slots : \E args \in ConcurrentInfos : CallTokenInfo(i, args)
    \/ \E i \in Slots : ExternalCallReturns(i)

ConcurrentSpec == ConcurrentInit /\ [][ConcurrentNext]_vars

\* the external calls of the second invocation return or fail in the end; those of the
\* first may never return
ConcurrentFairSpec == ConcurrentSpec /\ WF_vars(ExternalCallReturns(2))

\* PumpFunTrading.buyToken run on its own, its awaits answered by heard in order
buyTokenAlone(cfg, args, heard) ==
    LET wallet == validateWallet(cfg)
    IN IF wallet.kind = "throw" THEN buyTokenCatch(wallet)
       ELSE LET signed == PrepareTransaction(cfg, generateBuyTransaction(heard[1]))
            IN IF signed.kind = "throw" THEN buyTokenCatch(signed)
               ELSE IF heard[2].kind = "throw" THEN buyTokenCatch(heard[2])
               ELSE Return(buyTokenResult(heard[2].value, args["address"], args["solAmount"]))

\* getTokenInfo run on its own: PumpFunTrading.getTokenInfo in the servers,
\* PumpFunAPI.getTokenInfo in the catalogue
getTokenInfoAlone(b, cfg, args, heard) ==
    IF ~moralisApi(cfg) THEN ApiGetTokenInfo(args["address"], NoMoralis)
    ELSE IF b \in Catalogues THEN ApiGetTokenInfo(args["address"], getTokenMetadata(heard[1]))
    ELSE LET moralisData == getTokenMetadata(heard[1])
         IN IF moralisData.kind = "return" THEN moralisData
            ELSE ApiGetTokenInfo(args["address"], getTokenMetadata(heard[2]))

\* the result of the tool call when its invocation is the only one
RunAlone(b, cfg, tool, args, heard) ==
    handler(b, tool, IF tool = "buy_token" THEN buyTokenAlone(cfg, args, heard)
                     ELSE getTokenInfoAlone(b, cfg, args, heard)).value

(***************************************************************************)
(* Reading a finished invocation.                                          *)
(***************************************************************************)
Done(i) == inv[i].pc = "done"

Running(i) == inv[i].pc \in {"api", "rpc", "moralis", "moralisApi"}

ResultOf(i) == inv[i].results[1]

TextOf(i) == ResultOf(i).content[1].text

\* the flag as the caller reads it: an absent isError is not an error
ErrorFlag(i) == ResultOf(i).isError = "true"

After(text, prefix) == SubSeq(text, Len(prefix) + 1, Len(text))

NoPrivateKey == config["WALLET_PRIVATE_KEY"].t = "undefined"

NoMoralisKey == config["MORALIS_API_KEY"].t = "undefined"

(***************************************************************************)
(* C1: every invocation ends in exactly one result, a success or an error  *)
(* result, whatever its external calls answer; no fault raised inside a    *)
(* handler escapes to the transport.                                       *)
(***************************************************************************)
C1_OneResultPerInvocation ==
    \A i \in Slots :
        /\ inv[i].pc # "escaped"
        /\ inv[i].fault = NoError
        /\ inv[i].pc \in {"idle", "done"} \/ Running(i)
        /\ Running(i) \/ inv[i].pc = "idle" => Len(inv[i].results) = 0
        /\ Done(i) => /\ Len(inv[i].results) = 1
                      /\ Len(ResultOf(i).content) = 1
                      /\ ResultOf(i).isError \in {"true", "false", "absent"}
                      /\ inv[i].handlerRan /\ inv[i].outcome.kind = "throw" => ErrorFlag(i)

C1_Witness ==
    \E i \in Slots :
        /\ Done(i) /\ inv[i].handlerRan
        /\ inv[i].tool = "buy_token"
        /\ inv[i].rpcCalls = 1
        /\ inv[i].outcome.kind = "throw"
        /\ Len(inv[i].results) = 1

(***************************************************************************)
(* C2: without a wallet private key every buy_token / sell_token           *)
(* invocation ends in an error result and sends nothing: no request to the *)
(* trading API, no submission to the network; when its handler runs, the   *)
(* message says that trading is not available.                             *)
(***************************************************************************)
C2_NoKeyNoNetwork ==
    \A i \in Slots :
        inv[i].tool \in {"buy_token", "sell_token"} /\ NoPrivateKey =>
            /\ Done(i)
            /\ ErrorFlag(i)
            /\ inv[i].apiCalls = 0
            /\ inv[i].rpcCalls = 0
            /\ inv[i].request = NoRequest
            /\ inv[i].handlerRan => Contains(TextOf(i), "Trading is not available")

C2_Witness ==
    \E i \in Slots :
        /\ NoPrivateKey
        /\ inv[i].tool = "sell_token" /\ inv[i].handlerRan /\ Done(i)
        /\ inv[i].apiCalls = 0

(***************************************************************************)
(* C3: buy_token {address: "A", solAmount: 1} without a private key.       *)
(* As claimed the payload is the bare message of validateWallet; the code  *)
(* wraps it in buyToken's catch, and the handler puts its prefix in front. *)
(***************************************************************************)
C3_Scenario(i) ==
    /\ NoPrivateKey
    /\ Done(i)
    /\ inv[i].tool = "buy_token"
    /\ inv[i].args = Args([address |-> Str("A"), solAmount |-> Num("1")])

C3_BareMessage ==
    \A i \in Slots :
        C3_Scenario(i) =>
            /\ ErrorFlag(i)
            /\ TextOf(i) = "Error: Wallet private key is not configured. Trading is not available."

C3_WrappedMessage ==
    \A i \in Slots :
        C3_Scenario(i) =>
            /\ ErrorFlag(i)
            /\ Len(ResultOf(i).content) = 1
            /\ TextOf(i) = (IF build = "zod" THEN "Error: " ELSE "Error buying token: ")
                           \o "Failed to buy token: Error: Wallet private key is not configured. Trading is not available."

C3_Witness == \E i \in Slots : C3_Scenario(i) /\ inv[i].handlerRan

(***************************************************************************)
(* C4: an invocation of a registered tool that lacks a required parameter  *)
(* ends in an error result and its handler never runs: no provider call.   *)
(* The required parameters are those of the tool catalogue.                *)
(***************************************************************************)
CatalogRequired(tool) ==
    CASE tool = "search_tokens" -> {"query"}
      [] tool \in {"get_token_info", "get_token_price"} -> {"address"}
      [] tool = "buy_token" -> {"address", "solAmount"}
      [] tool = "sell_token" -> {"address", "tokenAmount"}
      [] tool = "search_tweets" -> {"query"}
      [] tool = "post_tweet" -> {"text"}
      [] OTHER -> {}

LacksRequired(i) ==
    /\ inv[i].pc # "idle"
    /\ inv[i].tool \in registered
    /\ \E p \in CatalogRequired(inv[i].tool) : inv[i].args[p].t = "undefined"

C4_MissingArgumentRejected ==
    \A i \in Slots :
        LacksRequired(i) =>
            /\ Done(i)
            /\ ErrorFlag(i)
            /\ ~inv[i].handlerRan
            /\ inv[i].apiCalls = 0 /\ inv[i].rpcCalls = 0 /\ inv[i].moralisCalls = 0

C4_Witness ==
    \E i \in Slots :
        /\ LacksRequired(i) /\ Done(i)
        /\ inv[i].tool = "buy_token"
        /\ inv[i].args["address"] = Str("A")
        /\ ~NoPrivateKey

(***************************************************************************)
(* C5: an operation name that is not registered ends in an error result    *)
(* with an unknown-operation message; nothing escapes, no handler runs.    *)
(***************************************************************************)
IsRegisteredName(name) ==
    \/ name \in {"search_tokens", "get_token_info", "buy_token", "sell_token"}
    \/ name = "get_token_price" /\ build # "providerCatalog"
    \/ name = "get_trending_tokens" /\ build # "catalog"
    \/ name = "get_graduated_tokens" /\ build = "catalog"
    \/ /\ name \in {"search_tweets", "post_tweet"}
       /\ config["TWITTER_API_KEY"].t = "string"
       /\ config["TWITTER_API_KEY_SECRET"].t = "string"

C5_UnknownOperationRejected ==
    \A i \in Slots :
        inv[i].pc # "idle" /\ ~IsRegisteredName(inv[i].tool) =>
            /\ Done(i)
            /\ ErrorFlag(i)
            /\ Contains(TextOf(i), "unknown operation")
            /\ ~inv[i].handlerRan
            /\ inv[i].fault = NoError

C5_Witness ==
    \E i \in Slots :
        /\ Done(i)
        /\ inv[i].tool = "frobnicate"
        /\ inv[i].args = NoArgs
        /\ ErrorFlag(i)

(***************************************************************************)
(* C6: the error result of a failed handler.  As claimed its one text      *)
(* payload is "Error: " followed by the message of the error the handler   *)
(* caught, for every tool; the JSON-schema server and the tool catalogue   *)
(* use a prefix of their own per tool instead.                             *)
(***************************************************************************)
HandlerFailed(i) == Done(i) /\ inv[i].handlerRan /\ inv[i].outcome.kind = "throw"

C6_ErrorColonPrefix ==
    \A i \in Slots :
        HandlerFailed(i) =>
            /\ ErrorFlag(i)
            /\ Len(ResultOf(i).content) = 1
            /\ TextOf(i) = "Error: " \o inv[i].outcome.error.message

OperationPrefix(tool) ==
    CASE tool = "search_tokens" -> "Error searching tokens: "
      [] tool = "get_trending_tokens" -> "Error fetching trending tokens: "
      [] tool = "get_graduated_tokens" -> "Error fetching graduated tokens: "
      [] tool = "get_token_info" -> "Error fetching token info: "
      [] tool = "get_token_price" -> "Error fetching token price: "
      [] tool = "buy_token" -> "Error buying token: "
      [] tool = "sell_token" -> "Error selling token: "
      [] tool = "search_tweets" -> "Error searching tweets: "
      [] tool = "post_tweet" -> "Error posting tweet: "

C6_PrefixThenMessage ==
    \A i \in Slots :
        HandlerFailed(i) =>
            /\ ErrorFlag(i)
            /\ Len(ResultOf(i).content) = 1
            /\ TextOf(i) = (IF build = "zod" THEN "Error: " ELSE OperationPrefix(inv[i].tool))
                           \o inv[i].outcome.error.message
            /\ StartsWith(TextOf(i), "Error")

C6_Witness ==
    \E i \in Slots :
        /\ HandlerFailed(i)
        /\ build = "schema"
        /\ inv[i].tool = "sell_token"
        /\ inv[i].apiCalls = 1 /\ inv[i].rpcCalls = 0

(***************************************************************************)
(* C7: for every registered tool, an invocation with valid arguments and   *)
(* responsive providers returns a result whose error flag is not set and   *)
(* whose text payload parses as JSON back to the value the operation       *)
(* returned, for buy_token, sell_token and post_tweet as for the read      *)
(* tools.  The arguments are those the registered schema accepts, the      *)
(* providers are responsive when every answer the invocation received was  *)
(* the good one, and the credentials the tool works with are configured.   *)
(***************************************************************************)
HandlerSucceeded(i) == Done(i) /\ inv[i].handlerRan /\ inv[i].outcome.kind = "return"

C7_ValidArguments(i) ==
    inv[i].handlerRan /\ GatewayCheck(registered, inv[i].tool, inv[i].args) = "ok"

C7_Configured(i) ==
    /\ inv[i].tool \in {"buy_token", "sell_token"} =>
          /\ validateWallet(config).kind = "return"
          /\ sign(Str("tx"), config["WALLET_PRIVATE_KEY"]).kind = "return"
    /\ inv[i].tool = "post_tweet" =>
          /\ Truthy(inv[i].credentials.accessToken)
          /\ Truthy(inv[i].credentials.accessTokenSecret)

C7_PayloadParses ==
    \A i \in Slots :
        Done(i) /\ C7_ValidArguments(i) /\ C7_Configured(i) /\ inv[i].responsive =>
            /\ ~ErrorFlag(i)
            /\ inv[i].outcome.kind = "return"
            /\ JSONparse(TextOf(i)) = Return(inv[i].outcome.value)

(***************************************************************************)
(* C8: without a Moralis API key get_token_info and get_token_price call   *)
(* no metadata provider and return, as a success, a placeholder that       *)
(* echoes the address asked for and carries a note.                        *)
(***************************************************************************)
C8_PlaceholderWithoutKey ==
    \A i \in Slots :
        /\ inv[i].tool \in {"get_token_info", "get_token_price"}
        /\ inv[i].handlerRan
        /\ NoMoralisKey
        => /\ Done(i)
           /\ ~ErrorFlag(i)
           /\ inv[i].fault = NoError
           /\ inv[i].moralisCalls = 0
           /\ LET payload == JSONparse(TextOf(i))
              IN /\ payload.kind = "return"
                 /\ payload.value.t = "object"
                 /\ Field(payload.value, "address") = inv[i].args["address"]
                 /\ Field(payload.value, "note").t = "string"
                 /\ Len(Field(payload.value, "note").s) > 0

C8_Witness ==
    \E i \in Slots :
        /\ NoMoralisKey
        /\ Done(i) /\ inv[i].handlerRan
        /\ inv[i].tool = "get_token_price"
        /\ inv[i].args["address"] = Str("A")

(***************************************************************************)
(* C9: the read operations when the metadata provider fails.  As claimed,  *)
(* once a call to the provider has failed (or, for getGraduatedTokens, no  *)
(* provider is there) the operation returns the placeholder, which for     *)
(* getTokenInfo is {address, name, symbol, decimals, note}.  In the code   *)
(* getTokenInfo asks the provider a second time and returns its data when  *)
(* that call succeeds, and its placeholder also has supply: 0.             *)
(***************************************************************************)
ReadOperations == {"get_token_info", "get_token_price", "get_graduated_tokens"}

IsNote(v) == v.t = "string" /\ Len(v.s) > 0

OnePlaceholderEntry(v) ==
    /\ v.t = "object"
    /\ Field(v, "result").t = "array"
    /\ Len(Field(v, "result").items) = 1
    /\ IsNote(Field(v, "note"))

C9_PlaceholderAfterAFailure ==
    \A i \in Slots :
        /\ Done(i) /\ inv[i].handlerRan /\ inv[i].tool \in ReadOperations
        /\ \/ inv[i].moralisFailures > 0
           \/ inv[i].tool = "get_graduated_tokens" /\ NoMoralisKey
        => /\ inv[i].outcome.kind = "return"
           /\ LET v == inv[i].outcome.value
              IN /\ IsNote(Field(v, "note"))
                 /\ inv[i].tool = "get_token_info" =>
                       v = Obj(<<<<"address", inv[i].args["address"]>>,
                                 <<"name", Str("Unknown Token")>>,
                                 <<"symbol", Str("UNKNOWN")>>, <<"decimals", Num("9")>>,
                                 <<"note", Field(v, "note")>>>>)
                 /\ inv[i].tool = "get_graduated_tokens" => OnePlaceholderEntry(v)

C9_PlaceholderAfterEveryFailure ==
    \A i \in Slots :
        /\ Done(i) /\ inv[i].handlerRan /\ inv[i].tool \in ReadOperations
        /\ \/ inv[i].moralisCalls > 0 /\ inv[i].moralisFailures = inv[i].moralisCalls
           \/ inv[i].tool = "get_graduated_tokens" /\ NoMoralisKey
        => /\ inv[i].outcome.kind = "return"
           /\ ~ErrorFlag(i)
           /\ LET v == inv[i].outcome.value
              IN /\ IsNote(Field(v, "note"))
                 /\ inv[i].tool = "get_token_info" =>
                       v = Obj(<<<<"address", inv[i].args["address"]>>,
                                 <<"name", Str("Unknown Token")>>,
                                 <<"symbol", Str("UNKNOWN")>>, <<"decimals", Num("9")>>,
                                 <<"supply", Num("0")>>,
                                 <<"note", Field(v, "note")>>>>)
                 /\ inv[i].tool = "get_graduated_tokens" => OnePlaceholderEntry(v)

C9_Witness ==
    \E i \in Slots :
        /\ Done(i)
        /\ inv[i].tool = "get_token_info"
        /\ inv[i].moralisCalls = 2 /\ inv[i].moralisFailures = 2
        /\ Field(inv[i].outcome.value, "symbol") = Str("UNKNOWN")

(***************************************************************************)
(* C10: the tokenAmount of sell_token reaches the request to the trading   *)
(* API as the very string the caller gave, "100%" included; nothing turns  *)
(* a percentage into an amount on the way.                                 *)
(***************************************************************************)
C10_TokenAmountUnchanged ==
    \A i \in Slots :
        inv[i].tool = "sell_token" /\ inv[i].apiCalls > 0 =>
            /\ inv[i].request.amount = inv[i].args["tokenAmount"]
            /\ inv[i].args["tokenAmount"].t = "string" => inv[i].request.amount.t = "string"
            /\ inv[i].request.action = "sell"
            /\ HandlerSucceeded(i) =>
                  Field(inv[i].outcome.value, "amount") = inv[i].args["tokenAmount"]

C10_Witness ==
    \E i \in Slots :
        /\ inv[i].tool = "sell_token"
        /\ inv[i].apiCalls = 1
        /\ inv[i].args["tokenAmount"] = Str("100%")
        /\ inv[i].request.amount = Str("100%")

(***************************************************************************)
(* C11: buy_token and sell_token never degrade silently.  A success result *)
(* is returned only after the request, the deserialization, the signing    *)
(* and the submission have all succeeded; when any step fails the result   *)
(* is an error whose text contains the message of the failure itself, and  *)
(* is neither a placeholder nor a success value.                           *)
(***************************************************************************)
WriteOperations == {"buy_token", "sell_token"}

AllSteps == <<"validateWallet", "request", "deserialize", "sign", "submit">>

C11_WritesNeverDegrade ==
    \A i \in Slots :
        inv[i].tool \in WriteOperations /\ inv[i].handlerRan /\ Done(i) =>
            /\ ~ErrorFlag(i) =>
                  /\ inv[i].steps = AllSteps
                  /\ inv[i].apiCalls = 1 /\ inv[i].rpcCalls = 1
                  /\ inv[i].failure = NoError
                  /\ inv[i].outcome.kind = "return"
                  /\ Field(inv[i].outcome.value, "status") = Str("sent")
            /\ inv[i].steps # AllSteps => inv[i].failure # NoError
            /\ inv[i].failure # NoError =>
                  /\ ErrorFlag(i)
                  /\ inv[i].outcome.kind = "throw"
                  /\ Len(inv[i].failure.message) > 0
                  /\ Contains(TextOf(i), inv[i].failure.message)
                  /\ ~Contains(TextOf(i), "\"note\"")
                  /\ ~Contains(TextOf(i), "Transaction initiated")

C11_Witness ==
    \E i \in Slots :
        /\ Done(i) /\ inv[i].handlerRan
        /\ inv[i].tool = "sell_token"
        /\ inv[i].steps = <<"validateWallet", "request", "deserialize", "sign">>
        /\ inv[i].failure = Error("Non-base58 character")
        /\ ErrorFlag(i)

(***************************************************************************)
(* C14: Twitter credentials never decide whether the server starts.  Once  *)
(* the tools are registered every trading tool is there whatever the       *)
(* configuration holds, and search_tweets / post_tweet are there exactly   *)
(* when the configuration has both the API key and the API key secret.     *)
(***************************************************************************)
TradingTools ==
    {"search_tokens", "get_token_info", "buy_token", "sell_token"}
        \cup (IF build = "providerCatalog" THEN {} ELSE {"get_token_price"})
        \cup (IF build = "catalog" THEN {"get_graduated_tokens"} ELSE {"get_trending_tokens"})

Configured(k) == config[k].t = "string" /\ Len(config[k].s) > 0

ToolsRegistered == phase \in {"connecting", "serving", "closing"}

C14_TwitterToolsIffAppKeys ==
    /\ lifecycle.failed = "constructor" => ~Configured("WALLET_PUBLIC_KEY")
    /\ phase = "loaded" => registered = {}
    /\ ToolsRegistered =>
          /\ TradingTools \subseteq registered
          /\ registered \subseteq TradingTools \cup {"search_tweets", "post_tweet"}
          /\ \A t \in {"search_tweets", "post_tweet"} :
                t \in registered <=>
                    Configured("TWITTER_API_KEY") /\ Configured("TWITTER_API_KEY_SECRET")

C14_Witness ==
    /\ phase = "serving"
    /\ Configured("TWITTER_API_KEY") /\ ~Configured("TWITTER_API_KEY_SECRET")
    /\ "buy_token" \in registered
    /\ "search_tweets" \notin registered

(***************************************************************************)
(* C15: a process environment without the wallet public key.  As claimed   *)
(* the validation of the configuration fails, no tool is registered or     *)
(* served, and the process exits with code 1.                              *)
(***************************************************************************)
C15_MissingPublicKeyIsFatal ==
    env["WALLET_PUBLIC_KEY"].t = "undefined" =>
        /\ phase \in {"loaded", "exited"}
        /\ registered = {}
        /\ phase = "exited" /\ lifecycle.killedBy = "" => exitCode = 1

(***************************************************************************)
(* C18: exit codes of the server.  The process exits with code 0 only from *)
(* the handler of SIGINT / SIGTERM and only once server.close() is over;   *)
(* a failure of the startup (the constructor, the connection) ends in exit *)
(* code 1; there is no other exit code.                                    *)
(***************************************************************************)
C18_ExitCodes ==
    /\ exitCode \in {-1, 0, 1}
    /\ exitCode # -1 => phase = "exited"
    /\ exitCode = 0 => lifecycle.signal \in Signals /\ lifecycle.closed /\ lifecycle.failed = ""
    /\ exitCode = 1 <=> lifecycle.failed # ""
    /\ lifecycle.signal \in Signals =>
          \/ phase = "closing" /\ exitCode = -1 /\ ~lifecycle.closed
          \/ phase = "exited" /\ exitCode = 0 /\ lifecycle.closed
    /\ lifecycle.closed => lifecycle.signal \in Signals

C18_Witness ==
    /\ phase = "exited"
    /\ exitCode = 0
    /\ lifecycle.signal = "SIGTERM"
    /\ lifecycle.closed
    /\ \E i \in Slots : Done(i) /\ inv[i].handlerRan

(***************************************************************************)
(* C12: no deduplication and no retry of the write operations.  As claimed *)
(* with a signing key configured and providers that answer, every          *)
(* buy_token / sell_token invocation issues exactly one request to the     *)
(* trading API and exactly one submission, so N invocations (identical or  *)
(* not) make N submissions.  A configured key that does not decode stops   *)
(* the invocation at the signing step, after its request and before any    *)
(* submission: the count of submissions needs a key that decodes.          *)
(***************************************************************************)
Quiescent == \A i \in Slots : ~Running(i)

KeyConfigured == config["WALLET_PRIVATE_KEY"].t = "string"

KeyDecodes == config["WALLET_PRIVATE_KEY"] = Str("3xValidBase58Key")

C12_OneSubmissionPerInvocation ==
    ledger.on /\ KeyConfigured /\ ledger.unanswered = 0 /\ Quiescent =>
        /\ ledger.requests = ledger.invocations
        /\ ledger.submissions = ledger.invocations

C12_OneSubmissionWithDecodableKey ==
    /\ ledger.submissions <= ledger.requests /\ ledger.requests <= ledger.invocations
    /\ \A i \in Slots : inv[i].apiCalls <= 1 /\ inv[i].rpcCalls <= inv[i].apiCalls
    /\ ledger.on /\ KeyConfigured /\ ledger.unanswered = 0 /\ Quiescent =>
          ledger.requests = ledger.invocations
    /\ ledger.on /\ KeyDecodes /\ ledger.unanswered = 0 /\ Quiescent =>
          ledger.submissions = ledger.invocations

C12_Witness ==
    /\ ledger.on /\ KeyDecodes /\ Quiescent
    /\ ledger.unanswered = 0
    /\ ledger.identical
    /\ ledger.tool = "buy_token"
    /\ ledger.invocations = MaxInvocations
    /\ ledger.submissions = MaxInvocations

(***************************************************************************)
(* C13: post_tweet.  As claimed it fails for want of credentials when no   *)
(* access token is configured and otherwise returns the metadata of the    *)
(* message, whose text is the text given.  TwitterAPI.postTweet asks for   *)
(* the access token and the access token secret: with the token alone it   *)
(* fails too.  The tokens are those the TwitterAPI instance holds at the   *)
(* call: given to its constructor from the configuration, or put in their  *)
(* place by setCredentials.                                                *)
(***************************************************************************)
Posted(i) == Done(i) /\ inv[i].handlerRan /\ inv[i].tool = "post_tweet"

PostedTheText(i) ==
    /\ ~ErrorFlag(i)
    /\ inv[i].outcome.kind = "return"
    /\ Field(inv[i].outcome.value, "text") = inv[i].args["text"]
    /\ LET shown == JSONparse(After(TextOf(i), "Tweet posted successfully: "))
       IN shown.kind = "return" /\ Field(shown.value, "text") = inv[i].args["text"]

MissingCredential(i) ==
    /\ ErrorFlag(i)
    /\ inv[i].outcome.kind = "throw"
    /\ inv[i].outcome.error.message = "Access tokens not set. Cannot post tweet."
    /\ Contains(TextOf(i), "Access tokens not set")

C13_AccessTokenSuffices ==
    \A i \in Slots :
        Posted(i) =>
            IF Truthy(inv[i].credentials.accessToken) THEN PostedTheText(i)
            ELSE MissingCredential(i)

C13_TokenAndSecretNeeded ==
    \A i \in Slots :
        Posted(i) =>
            IF /\ Truthy(inv[i].credentials.accessToken)
               /\ Truthy(inv[i].credentials.accessTokenSecret)
            THEN PostedTheText(i)
            ELSE MissingCredential(i)

C13_Witness ==
    \E i \in Slots :
        /\ Posted(i)
        /\ ~Configured("TWITTER_ACCESS_TOKEN_SECRET")
        /\ inv[i].credentials = setCredentials(TwitterAPIConstructor(config), Str("tok"), Str("sec"))
        /\ inv[i].args["text"] = Str("gm")
        /\ Field(inv[i].outcome.value, "text") = Str("gm")

(***************************************************************************)
(* C16: what the launcher writes to its standard output.  As claimed the   *)
(* bytes written are a sequence of well-formed protocol messages (one JSON *)
(* object with "jsonrpc": "2.0" per line) for every sequence of chunks the *)
(* server produces.                                                        *)
(***************************************************************************)
IsProtocolMessage(line) ==
    LET parsed == JSONparse(line)
    IN /\ parsed.kind = "return"
       /\ parsed.value.t = "object"
       /\ Field(parsed.value, "jsonrpc") = Str("2.0")

RECURSIVE IsProtocolStream(_)
IsProtocolStream(bytes) ==
    IF bytes = "" THEN TRUE
    ELSE LET newline == ScanTo(bytes, 1, "\n")
         IN /\ newline <= Len(bytes)
            /\ IsProtocolMessage(SubSeq(bytes, 1, newline - 1))
            /\ IsProtocolStream(SubSeq(bytes, newline + 1, Len(bytes)))

C16_OnlyProtocolMessages == IsProtocolStream(Join(adapter.out, ""))

(***************************************************************************)
(* C17: the launcher passes on every SIGINT / SIGTERM it receives to the   *)
(* server, as the signal it received, and once it has received one it      *)
(* exits; it exits only when the server has ended, with the exit code of   *)
(* the server.                                                             *)
(***************************************************************************)
C17_SameSignalSameCode ==
    /\ adapter.forwarded = adapter.received
    /\ adapter.state = "exited" =>
          /\ phase = "exited"
          /\ exitCode # -1 => adapter.exitCode = exitCode
    /\ adapter.state = "running" => adapter.exitCode = -1

C17_ForwardsAndExits ==
    /\ []C17_SameSignalSameCode
    /\ (Len(adapter.received) > 0) ~> (adapter.state = "exited")

C17_Witness ==
    /\ adapter.state = "exited"
    /\ adapter.received = <<"SIGINT">>
    /\ adapter.forwarded = <<"SIGINT">>
    /\ lifecycle.signal = "SIGINT" /\ lifecycle.closed
    /\ exitCode = 0 /\ adapter.exitCode = 0

(***************************************************************************)
(* C19: search_tokens returns the list of the trading-data provider as it  *)
(* is: no filtering, no ranking, no reshaping.  As claimed, with           *)
(* {query: "sol"} and a provider answering [{address: "A", name: "Sol",    *)
(* symbol: "SOL", decimals: 9}] the text payload is that list printed      *)
(* without white space; the handlers print it with JSON.stringify(tokens,  *)
(* null, 2), indented by two spaces.                                       *)
(***************************************************************************)
C19_Scenario(i) ==
    /\ Done(i) /\ inv[i].handlerRan
    /\ inv[i].tool = "search_tokens"
    /\ inv[i].args = Args([query |-> Str("sol")])
    /\ inv[i].provider = "stub"

C19_CompactPayload ==
    \A i \in Slots :
        C19_Scenario(i) =>
            /\ ~ErrorFlag(i)
            /\ TextOf(i) = "[{\"address\":\"A\",\"name\":\"Sol\",\"symbol\":\"SOL\",\"decimals\":9}]"

C19_IndentedPayload ==
    \A i \in Slots :
        /\ C19_Scenario(i) =>
              /\ ~ErrorFlag(i)
              /\ Len(ResultOf(i).content) = 1
              /\ TextOf(i) = "[\n  {\n    \"address\": \"A\",\n    \"name\": \"Sol\",\n    \"symbol\": \"SOL\",\n    \"decimals\": 9\n  }\n]"
              /\ JSONstringify(JSONparse(TextOf(i)).value, "")
                    = "[{\"address\":\"A\",\"name\":\"Sol\",\"symbol\":\"SOL\",\"decimals\":9}]"
        /\ Done(i) /\ inv[i].handlerRan /\ inv[i].tool = "search_tokens" =>
              /\ ~ErrorFlag(i)
              /\ JSONparse(TextOf(i)) = ProviderSearchTokens(inv[i].provider, inv[i].args["query"])

C19_Witness == \E i \in Slots : C19_Scenario(i) /\ build = "zod"

(***************************************************************************)
(* C20: argument defaults are applied for the optional parameters absent   *)
(* from the invocation and only for those.  A trade reaches the request to *)
(* the trading API with slippage 1, priorityFee 0.00001 and pool "pump"    *)
(* where these are omitted, search_tweets produces 10 tweets without a     *)
(* count, the listing of graduated tokens asks for limit=100 without a     *)
(* limit; a value the caller supplies, zero included, is passed unchanged. *)
(* The handlers of createPumpFunTools in providers/pumpFun.ts call          *)
(* trading.buyToken(address, solAmount) and trading.sellToken(address,      *)
(* tokenAmount): a slippage, priority fee or pool the caller supplies is    *)
(* dropped there and the request carries the defaults.                      *)
(***************************************************************************)
Supplied(i, name, default) ==
    IF inv[i].args[name] = Undefined THEN default ELSE inv[i].args[name]

C20_TradeReachesRequest(i) == inv[i].tool \in WriteOperations /\ inv[i].request # NoRequest

C20_DefaultsOnlyWhenAbsent ==
    \A i \in Slots :
        /\ C20_TradeReachesRequest(i) =>
              /\ inv[i].request.slippage = Supplied(i, "slippage", Num("1"))
              /\ inv[i].request.priorityFee = Supplied(i, "priorityFee", Num("0.00001"))
              /\ inv[i].request.pool = Supplied(i, "pool", Str("pump"))
        /\ inv[i].tool = "search_tweets" /\ inv[i].handlerRan /\ inv[i].pc # "idle" =>
              LET count == Supplied(i, "count", Num("10"))
              IN IF IsArrayLength(count)
                 THEN /\ inv[i].outcome.kind = "return"
                      /\ Len(inv[i].outcome.value.items) = ArrayLength(count)
                      /\ inv[i].args["count"] = Undefined =>
                             Len(inv[i].outcome.value.items) = 10
                 ELSE inv[i].outcome.kind = "throw"
        /\ inv[i].tool = "get_graduated_tokens" /\ inv[i].moralisCalls > 0 =>
              inv[i].url =
                  "https://solana-gateway.moralis.io/token/mainnet/exchange/pumpfun/graduated?limit="
                  \o Supplied(i, "limit", Num("100")).n
                  \o (IF inv[i].args["cursor"] = Undefined THEN ""
                      ELSE "&cursor=" \o inv[i].args["cursor"].s)

(***************************************************************************)
(* C21: search_tweets returns at most count messages about the query, 10   *)
(* when the count is omitted, and every count the schema accepts ends in   *)
(* exactly one result: a count that is no array length (a negative number) *)
(* ends in one error result that lists no message.                         *)
(***************************************************************************)
C21_Searched(i) == inv[i].tool = "search_tweets" /\ inv[i].handlerRan /\ inv[i].pc # "idle"

C21_Limit(i) == IF inv[i].args["count"] = Undefined THEN 10 ELSE ArrayLength(inv[i].args["count"])

C21_AtMostCountMessages ==
    \A i \in Slots :
        C21_Searched(i) =>
            /\ Done(i)
            /\ Len(inv[i].results) = 1
            /\ Len(ResultOf(i).content) = 1
            /\ IF ErrorFlag(i)
               THEN /\ inv[i].args["count"] # Undefined
                    /\ ~IsArrayLength(inv[i].args["count"])
                    /\ JSONparse(TextOf(i)).kind = "throw"
               ELSE LET tweets == JSONparse(TextOf(i))
                    IN /\ tweets.kind = "return"
                       /\ tweets.value.t = "array"
                       /\ Len(tweets.value.items) <= C21_Limit(i)
                       /\ \A k \in 1..Len(tweets.value.items) :
                             Contains(Field(tweets.value.items[k], "text").s,
                                      inv[i].args["query"].s)

C21_Witness ==
    \E i \in Slots :
        /\ C21_Searched(i) /\ Done(i)
        /\ inv[i].args["count"] = Num("2")
        /\ ~ErrorFlag(i)
        /\ Len(JSONparse(TextOf(i)).value.items) = 2

(***************************************************************************)
(* C24: buyToken and sellToken run their steps in one fixed order: the     *)
(* request to the trading API, the deserialization, the signing, the       *)
(* submission.  The submission is sent only after the three steps before   *)
(* it have succeeded in the same invocation, and the step that fails is    *)
(* the last step that runs.                                                *)
(***************************************************************************)
C24_Trade(i) == inv[i].tool \in WriteOperations /\ inv[i].handlerRan

C24_FixedOrder ==
    \A i \in Slots :
        C24_Trade(i) =>
            /\ \E n \in 1..Len(AllSteps) : inv[i].steps = SubSeq(AllSteps, 1, n)
            /\ inv[i].apiCalls = (IF Len(inv[i].steps) >= 2 THEN 1 ELSE 0)
            /\ inv[i].rpcCalls = (IF Len(inv[i].steps) = 5 THEN 1 ELSE 0)
            /\ inv[i].pc = "api" => Len(inv[i].steps) = 2 /\ inv[i].failure = NoError
            /\ inv[i].pc = "rpc" => Len(inv[i].steps) = 5 /\ inv[i].failure = NoError
            /\ Done(i) /\ Len(inv[i].steps) < 5 => inv[i].failure # NoError /\ ErrorFlag(i)
            /\ inv[i].failure # NoError => Done(i)

C24_Witness ==
    \E i \in Slots :
        /\ C24_Trade(i) /\ Done(i)
        /\ inv[i].tool = "buy_token"
        /\ inv[i].steps = <<"validateWallet", "request", "deserialize">>
        /\ inv[i].rpcCalls = 0
        /\ KeyDecodes

(***************************************************************************)
(* C26: a successful buyToken returns success true, the identifier that    *)
(* the one submission call returned as transactionId, the token address    *)
(* and the SOL amount of the invocation, the status "sent" and the         *)
(* explorer address of the transaction; it returns right after the         *)
(* submission, with no further network call in the invocation.             *)
(***************************************************************************)
C26_Bought(i) ==
    /\ inv[i].tool = "buy_token" /\ inv[i].handlerRan /\ Done(i)
    /\ inv[i].outcome.kind = "return"

C26_SentNotConfirmed ==
    \A i \in Slots :
        C26_Bought(i) =>
            LET value == inv[i].outcome.value
            IN /\ [k \in 1..Len(value.fields) |-> value.fields[k][1]]
                     = <<"success", "transactionId", "tokenAddress", "amountSol", "status",
                         "explorerUrl">>
               /\ Field(value, "success") = Bool(TRUE)
               /\ inv[i].signature.t = "string"
               /\ Field(value, "transactionId") = inv[i].signature
               /\ Field(value, "tokenAddress") = inv[i].args["address"]
               /\ Field(value, "amountSol") = inv[i].args["solAmount"]
               /\ Field(value, "status") = Str("sent")
               /\ Field(value, "explorerUrl").s = "https://solscan.io/tx/" \o inv[i].signature.s
               /\ inv[i].apiCalls = 1 /\ inv[i].rpcCalls = 1 /\ inv[i].moralisCalls = 0
               /\ inv[i].steps[Len(inv[i].steps)] = "submit"

C26_Witness ==
    \E i \in Slots :
        /\ C26_Bought(i)
        /\ Field(inv[i].outcome.value, "transactionId") = Str("5ig")
        /\ Field(inv[i].outcome.value, "status") = Str("sent")

(***************************************************************************)
(* C27: the operation fixes the denomination of the request to the trading *)
(* API, the caller does not: every request of buy_token has the action     *)
(* "buy" and denominatedInSol "true", every request of sell_token has the  *)
(* action "sell" and denominatedInSol "false", whatever the arguments are. *)
(***************************************************************************)
C27_Requested(i) == inv[i].tool \in WriteOperations /\ inv[i].apiCalls > 0

C27_DenominationByOperation ==
    \A i \in Slots :
        /\ C27_Requested(i) => inv[i].request # NoRequest
        /\ C27_Requested(i) /\ inv[i].tool = "buy_token" =>
              inv[i].request.action = "buy" /\ inv[i].request.denominatedInSol = "true"
        /\ C27_Requested(i) /\ inv[i].tool = "sell_token" =>
              inv[i].request.action = "sell" /\ inv[i].request.denominatedInSol = "false"
        /\ inv[i].apiCalls = 0 => inv[i].request.denominatedInSol = ""

C27_Witness ==
    \E i \in Slots :
        /\ C27_Requested(i)
        /\ inv[i].tool = "sell_token"
        /\ inv[i].args["tokenAmount"] = Str("50")
        /\ inv[i].request.denominatedInSol = "false"

(***************************************************************************)
(* C28: with a Moralis key, one get_token_info invocation asks the         *)
(* metadata endpoint at most twice, the second time (in the fallback       *)
(* PumpFunAPI.getTokenInfo) only after the first call failed; it returns   *)
(* the provider's data when a call succeeds and the placeholder only when  *)
(* every call it made failed.  get_token_price asks the provider at most   *)
(* once.                                                                   *)
(***************************************************************************)
C28_Orchestrated == build \notin Catalogues

C28_IsPlaceholder(v) == HasField(v, "note")

C28_AtMostTwoMetadataCalls ==
    \A i \in Slots :
        /\ inv[i].tool = "get_token_info" /\ inv[i].handlerRan =>
              /\ inv[i].moralisCalls <= (IF C28_Orchestrated THEN 2 ELSE 1)
              /\ inv[i].moralisCalls > 0 <=> moralisApi(config)
              /\ inv[i].moralisCalls = 2 => inv[i].moralisFailures >= 1
              /\ inv[i].moralisFailures <= inv[i].moralisCalls
              /\ Done(i) /\ moralisApi(config) =>
                    /\ inv[i].outcome.kind = "return"
                    /\ inv[i].moralisFailures < inv[i].moralisCalls =>
                          inv[i].outcome.value = MoralisData
                    /\ C28_IsPlaceholder(inv[i].outcome.value) <=>
                          inv[i].moralisFailures = inv[i].moralisCalls
                    /\ C28_IsPlaceholder(inv[i].outcome.value) /\ C28_Orchestrated =>
                          inv[i].moralisCalls = 2
        /\ inv[i].tool = "get_token_price" /\ inv[i].handlerRan =>
              /\ inv[i].moralisCalls <= 1
              /\ inv[i].moralisCalls = 1 <=> moralisApi(config)

C28_Witness ==
    \E i \in Slots :
        /\ Done(i) /\ inv[i].tool = "get_token_info"
        /\ inv[i].moralisCalls = 2 /\ inv[i].moralisFailures = 1
        /\ inv[i].outcome.value = MoralisData

(***************************************************************************)
(* C29: the signing key is checked for presence before the network is      *)
(* touched and decoded after the request.  With a private key that is      *)
(* configured and does not decode, buy_token and sell_token issue the      *)
(* request to the trading API, end in an error result and never submit     *)
(* anything; unless the request or the deserialization has failed before,  *)
(* the step that fails is the signing.                                     *)
(***************************************************************************)
C29_KeyDoesNotDecode == Truthy(config["WALLET_PRIVATE_KEY"]) /\ ~KeyDecodes

C29_Trade(i) == inv[i].tool \in WriteOperations /\ inv[i].handlerRan

C29_DecodedAfterRequest ==
    \A i \in Slots :
        C29_KeyDoesNotDecode /\ C29_Trade(i) =>
            /\ inv[i].apiCalls = 1
            /\ inv[i].request # NoRequest
            /\ inv[i].rpcCalls = 0
            /\ inv[i].pc \in {"api", "done"}
            /\ Done(i) =>
                  /\ ErrorFlag(i)
                  /\ inv[i].steps[Len(inv[i].steps)] \in {"request", "deserialize", "sign"}
                  /\ inv[i].steps[Len(inv[i].steps)] = "sign" <=>
                        inv[i].failure = Error("Non-base58 character")
                  /\ ~Contains(TextOf(i), "Wallet private key is not configured")

C29_Witness ==
    \E i \in Slots :
        /\ C29_KeyDoesNotDecode /\ C29_Trade(i) /\ Done(i)
        /\ inv[i].tool = "buy_token"
        /\ inv[i].apiCalls = 1 /\ inv[i].rpcCalls = 0
        /\ inv[i].steps[Len(inv[i].steps)] = "sign"

(***************************************************************************)
(* C30: the launcher decides chunk by chunk.  A chunk of the server's      *)
(* output is written to the launcher's standard output, whole and as it    *)
(* came, exactly when it contains the envelope signature; every other      *)
(* chunk is withheld and answered by one diagnostic line on the standard   *)
(* error, whatever the chunks before it were: the rest of a message whose  *)
(* first chunk was forwarded is withheld too.                              *)
(***************************************************************************)
HasSignature(chunk) ==
    Contains(chunk, "\"jsonrpc\":\"2.0\"") \/ Contains(chunk, "\"jsonrpc\": \"2.0\"")

C30_DecidedPerChunk ==
    /\ adapter.out = SelectSeq(adapter.chunks, HasSignature)
    /\ Len(adapter.diagnostics) = Len(adapter.chunks) - Len(adapter.out)
    /\ \A k \in 1..Len(adapter.diagnostics) :
          adapter.diagnostics[k] = "Filtered non-JSON-RPC output\n"

C30_Witness ==
    /\ Len(adapter.chunks) = 2
    /\ HasSignature(adapter.chunks[1]) /\ ~HasSignature(adapter.chunks[2])
    /\ Ch(adapter.chunks[1], Len(adapter.chunks[1])) = ","
    /\ adapter.out = <<adapter.chunks[1]>>
    /\ Len(adapter.diagnostics) = 1

(***************************************************************************)
(* C22: invocations share no mutable state.  With two invocations in       *)
(* flight, interleaved at their external calls in every order, the result  *)
(* of each is the result the same tool call produces on its own from the   *)
(* same answers of the providers, and no invocation changes the            *)
(* configuration, the Twitter client or the set of registered tools.       *)
(***************************************************************************)
C22_ResultAsAlone ==
    /\ config = parseConfig(env)
    /\ twitter = TwitterAPIConstructor(config)
    /\ phase = "serving" => registered = RegisteredTools(build, config)
    /\ \A i \in Slots :
          /\ Len(inv[i].heard) = inv[i].apiCalls + inv[i].rpcCalls + inv[i].moralisCalls
                                    - (IF Running(i) THEN 1 ELSE 0)
          /\ Done(i) =>
                /\ Len(inv[i].results) = 1
                /\ ResultOf(i) = RunAlone(build, config, inv[i].tool, inv[i].args, inv[i].heard)

C22_Witness ==
    /\ Len(inv) > 1
    /\ Done(1) /\ inv[1].tool = "buy_token" /\ Len(inv[1].heard) = 2 /\ ~ErrorFlag(1)
    /\ ResultOf(1) = RunAlone(build, config, "buy_token", inv[1].args, inv[1].heard)
    /\ Running(2) /\ inv[2].tool = "get_token_info" /\ Len(inv[2].heard) = 1

(***************************************************************************)
(* C23: a dispatched invocation runs to completion or failure.  When the   *)
(* external calls of an invocation return or fail in the end, the          *)
(* invocation produces its result in the end; a suspended invocation has   *)
(* no result and is resumed by nothing but the answer of its call (no      *)
(* timeout, no cancellation); an invocation whose call never returns does  *)
(* not keep the other invocation from completing.                          *)
(***************************************************************************)
C23_NoResultWhileSuspended ==
    \A i \in Slots : Running(i) => Len(inv[i].results) = 0 /\ inv[i].fault = NoError

C23_ResumedByAnswerOnly ==
    \A i \in Slots :
        Running(i) /\ inv'[i] # inv[i] => Len(inv'[i].heard) = Len(inv[i].heard) + 1

C23_RunsToCompletion ==
    /\ []C23_NoResultWhileSuspended
    /\ [][C23_ResumedByAnswerOnly]_vars
    /\ Running(2) ~> (Done(2) /\ Len(inv[2].results) = 1)

C23_Witness ==
    /\ Len(inv) > 1
    /\ Running(1) /\ inv[1].tool = "buy_token" /\ Len(inv[1].heard) = 0
    /\ Done(2) /\ inv[2].tool = "buy_token" /\ Len(inv[2].heard) = 2
    /\ Len(inv[2].results) = 1

====
